---- MODULE Spec2Model ----
(***************************************************************************)
(* Dynamic colour resolution of material-color-utilities (TypeScript).     *)
(*                                                                         *)
(* Units.  Hues and tones are whole degrees / whole tone units.  Chroma    *)
(* is kept in thousandths (12.0 is 12000, 1.4 * 2.2 is 3080), chroma       *)
(* multipliers in tenths (2.5 is 25), contrast ratios in hundredths        *)
(* (4.5 is 450) and contrast levels in tenths (0.5 is 5, -1 is -10).       *)
(*                                                                         *)
(* Evaluation.  A function of the source receives the values of its        *)
(* arguments.  Where an operator here uses an argument several times it    *)
(* hands the argument to a local function, so that the argument is         *)
(* evaluated once, as in the source.                                       *)
(***************************************************************************)
EXTENDS Integers, Sequences, FiniteSets, TLC

\* ------------------------------------------------------------------------
\* utils/math_utils
\* ------------------------------------------------------------------------

clampDouble(min, max, input) ==
    LET clamp[lo \in Int, hi \in Int, x \in Int] ==
            IF x < lo THEN lo ELSE IF x > hi THEN hi ELSE x
    IN  clamp[min, max, input]

sanitizeDegreesDouble(degrees) == degrees % 360

Min2(a, b) ==
    LET min[x \in Int, y \in Int] == IF x < y THEN x ELSE y
    IN  min[a, b]

Max2(a, b) ==
    LET max[x \in Int, y \in Int] == IF x > y THEN x ELSE y
    IN  max[a, b]

Abs(a) ==
    LET abs[x \in Int] == IF x < 0 THEN 0 - x ELSE x
    IN  abs[a]

\* ------------------------------------------------------------------------
\* Colour space (Hct): hue-family predicates and gamut clipping
\* ------------------------------------------------------------------------

isBlue(hue) == hue >= 250 /\ hue < 270

isYellow(hue) == hue >= 105 /\ hue < 125

\* A gamut curve with one peak: chroma rises linearly from 0 at tone 0 to
\* peakChroma at peakTone and falls linearly to 0 at tone 100.
tent(peakTone, peakChroma, tone) ==
    IF tone <= peakTone
      THEN (peakChroma * tone) \div peakTone
      ELSE (peakChroma * (100 - tone)) \div (100 - peakTone)

\* The largest chroma the display renders at a hue and tone.  Tones outside
\* [0, 100] render as black or white, which carry no chroma.  The magenta
\* sector has two peaks with a valley between them.
MaxChroma(hue, tone) ==
    IF tone <= 0 \/ tone >= 100 THEN 0
    ELSE IF hue < 38 THEN tent(50, 100000, tone)
    ELSE IF hue < 105 THEN tent(70, 90000, tone)
    ELSE IF hue < 161 THEN tent(90, 95000, tone)
    ELSE IF hue < 204 THEN tent(85, 60000, tone)
    ELSE IF hue < 278 THEN tent(35, 85000, tone)
    ELSE IF hue < 333 THEN tent(55, 110000, tone)
    ELSE Max2(tent(30, 60000, tone), tent(75, 90000, tone))

\* Hct.from(hue, chroma, tone).chroma: the requested chroma clipped into gamut.
HctChroma(hue, chroma, tone) == Min2(Max2(chroma, 0), MaxChroma(hue, tone))

\* Hct.from(hue, chroma, tone) as the colour it renders: the tone is clipped
\* to [0, 100], the chroma into gamut, and a colour without chroma has no hue.
HctFrom(hue, chroma, tone) ==
    LET from[t \in Int, c \in Int] ==
            [hue |-> IF c = 0 THEN 0 ELSE hue, chroma |-> c, tone |-> t]
        clipped[t \in Int] == from[t, HctChroma(hue, chroma, t)]
    IN  clipped[clampDouble(0, 100, tone)]

\* ------------------------------------------------------------------------
\* Tonal palettes
\* ------------------------------------------------------------------------

\* The value of an optional argument that was not supplied.
Undefined == [hue |-> 0 - 1, chroma |-> 0 - 1]

fromHueAndChroma(hue, chroma) == [hue |-> hue, chroma |-> chroma]

\* palette.keyColor.tone: the tone nearest to 50 at which the palette's chroma
\* is rendered in full, or else the tone of largest chroma.
KeyTone(palette) ==
    LET ok == {t \in 0..100 : MaxChroma(palette.hue, t) >= palette.chroma}
    IN  IF ok # {}
          THEN CHOOSE t \in ok : \A u \in ok :
                 Abs(t - 50) < Abs(u - 50) \/ (Abs(t - 50) = Abs(u - 50) /\ t <= u)
          ELSE CHOOSE t \in 0..100 : \A u \in 0..100 :
                 MaxChroma(palette.hue, t) > MaxChroma(palette.hue, u)
                   \/ (MaxChroma(palette.hue, t) = MaxChroma(palette.hue, u) /\ t <= u)

\* palette.tone(t): the pixel of the palette at a tone.
PaletteTone(palette, tone) == HctFrom(palette.hue, palette.chroma, tone)

\* ------------------------------------------------------------------------
\* DynamicScheme: piecewise hue tables
\* ------------------------------------------------------------------------

\* The least element of a non-empty set of integers.
Least(S) == CHOOSE x \in S : \A y \in S : x <= y

\* A piecewise hue that returns the table entry as it is (a variant).
getPiecewiseHueAsItIs(sourceColorHct, hueBreakpoints, hues) ==
    LET size == Min2(Len(hueBreakpoints) - 1, Len(hues))
        sourceHue == sourceColorHct.hue
        hit == {i \in 0..(size - 1) :
                  sourceHue >= hueBreakpoints[i + 1] /\ sourceHue < hueBreakpoints[i + 2]}
    IN  IF hit # {} THEN hues[Least(hit) + 1] ELSE sourceHue

\* Indices are those of the source (from 0); a TLA+ sequence starts at 1.
getPiecewiseHue(sourceColorHct, hueBreakpoints, hues) ==
    LET size == Min2(Len(hueBreakpoints) - 1, Len(hues))
        sourceHue == sourceColorHct.hue
        hit == {i \in 0..(size - 1) :
                  sourceHue >= hueBreakpoints[i + 1] /\ sourceHue < hueBreakpoints[i + 2]}
    IN  IF hit # {} THEN sanitizeDegreesDouble(hues[Least(hit) + 1]) ELSE sourceHue

getRotatedHue(sourceColorHct, hueBreakpoints, rotations) ==
    LET found == getPiecewiseHue(sourceColorHct, hueBreakpoints, rotations)
        rotation == IF Min2(Len(hueBreakpoints) - 1, Len(rotations)) <= 0
                      THEN 0 ELSE found
    IN  sanitizeDegreesDouble(sourceColorHct.hue + rotation)

\* ------------------------------------------------------------------------
\* Palette delegates of the two spec versions
\* ------------------------------------------------------------------------

Impl2021getPrimaryPalette(sourceColorHct, isDark, contrastLevel) ==
    fromHueAndChroma(sourceColorHct.hue, 12000)

Impl2021getSecondaryPalette(sourceColorHct, isDark, contrastLevel) ==
    fromHueAndChroma(sourceColorHct.hue, 8000)

Impl2021getTertiaryPalette(sourceColorHct, isDark, contrastLevel) ==
    fromHueAndChroma(sourceColorHct.hue, 16000)

\* A neutral palette with more chroma in dark mode (a variant).
Impl2021getNeutralPaletteByMode(sourceColorHct, isDark, contrastLevel) ==
    fromHueAndChroma(sourceColorHct.hue, IF isDark THEN 4000 ELSE 2000)

Impl2021getNeutralPalette(sourceColorHct, isDark, contrastLevel) ==
    fromHueAndChroma(sourceColorHct.hue, 2000)

Impl2021getNeutralVariantPalette(sourceColorHct, isDark, contrastLevel) ==
    fromHueAndChroma(sourceColorHct.hue, 2000)

Impl2021getErrorPalette(sourceColorHct, isDark, contrastLevel) == Undefined

Impl2025getPrimaryPalette(sourceColorHct, isDark, contrastLevel) ==
    fromHueAndChroma(sourceColorHct.hue,
                     IF isBlue(sourceColorHct.hue) THEN 12000 ELSE 8000)

Impl2025getSecondaryPalette(sourceColorHct, isDark, contrastLevel) ==
    fromHueAndChroma(sourceColorHct.hue,
                     IF isBlue(sourceColorHct.hue) THEN 6000 ELSE 4000)

\* A tertiary palette whose hue is the table entry itself (a variant).
Impl2025getTertiaryPaletteOfTableHue(sourceColorHct, isDark, contrastLevel) ==
    fromHueAndChroma(
        getPiecewiseHue(sourceColorHct, <<0, 38, 105, 161, 204, 278, 333, 360>>,
                        <<0 - 32, 26, 10, 0 - 39, 24, 0 - 15, 0 - 32>>),
        20000)

Impl2025getTertiaryPalette(sourceColorHct, isDark, contrastLevel) ==
    fromHueAndChroma(
        getRotatedHue(sourceColorHct, <<0, 38, 105, 161, 204, 278, 333, 360>>,
                      <<0 - 32, 26, 10, 0 - 39, 24, 0 - 15, 0 - 32>>),
        20000)

Impl2025getNeutralPalette(sourceColorHct, isDark, contrastLevel) ==
    fromHueAndChroma(sourceColorHct.hue, 1400)

Impl2025getNeutralVariantPalette(sourceColorHct, isDark, contrastLevel) ==
    fromHueAndChroma(sourceColorHct.hue, (1400 * 22) \div 10)

Impl2025getErrorPalette(sourceColorHct, isDark, contrastLevel) ==
    LET errorHue == getPiecewiseHue(sourceColorHct,
                        <<0, 3, 13, 23, 33, 43, 153, 273, 360>>,
                        <<12, 22, 32, 12, 22, 32, 22, 12>>)
    IN  fromHueAndChroma(errorHue, 50000)

\* The two module-level delegate objects.
spec2021 == "spec2021"

spec2025 == "spec2025"

\* A getSpec that ignores the version (a variant).
getSpecLatest(specVersion) == spec2025

getSpec(specVersion) == IF specVersion = "2025" THEN spec2025 ELSE spec2021

PaletteNames ==
    {"primaryPalette", "secondaryPalette", "tertiaryPalette", "neutralPalette",
     "neutralVariantPalette", "errorPalette"}

\* delegate.get<Name>Palette(sourceColorHct, isDark, contrastLevel): the call
\* is dispatched on the delegate object; the 2025 class overrides all six.
getPalette(delegate, name, sourceColorHct, isDark, contrastLevel) ==
    IF delegate = spec2025
      THEN CASE name = "primaryPalette" ->
                  Impl2025getPrimaryPalette(sourceColorHct, isDark, contrastLevel)
             [] name = "secondaryPalette" ->
                  Impl2025getSecondaryPalette(sourceColorHct, isDark, contrastLevel)
             [] name = "tertiaryPalette" ->
                  Impl2025getTertiaryPalette(sourceColorHct, isDark, contrastLevel)
             [] name = "neutralPalette" ->
                  Impl2025getNeutralPalette(sourceColorHct, isDark, contrastLevel)
             [] name = "neutralVariantPalette" ->
                  Impl2025getNeutralVariantPalette(sourceColorHct, isDark, contrastLevel)
             [] name = "errorPalette" ->
                  Impl2025getErrorPalette(sourceColorHct, isDark, contrastLevel)
      ELSE CASE name = "primaryPalette" ->
                  Impl2021getPrimaryPalette(sourceColorHct, isDark, contrastLevel)
             [] name = "secondaryPalette" ->
                  Impl2021getSecondaryPalette(sourceColorHct, isDark, contrastLevel)
             [] name = "tertiaryPalette" ->
                  Impl2021getTertiaryPalette(sourceColorHct, isDark, contrastLevel)
             [] name = "neutralPalette" ->
                  Impl2021getNeutralPalette(sourceColorHct, isDark, contrastLevel)
             [] name = "neutralVariantPalette" ->
                  Impl2021getNeutralVariantPalette(sourceColorHct, isDark, contrastLevel)
             [] name = "errorPalette" ->
                  Impl2021getErrorPalette(sourceColorHct, isDark, contrastLevel)

\* ------------------------------------------------------------------------
\* DynamicScheme: the constructor
\* ------------------------------------------------------------------------

\* A palette field that ignores the supplied palette (a variant).
paletteFieldGenerated(supplied, name, specVersion, sourceColorHct, isDark, contrastLevel) ==
    [palette |-> getPalette(getSpec(specVersion), name, sourceColorHct, isDark,
                            contrastLevel),
     by |-> getSpec(specVersion)]

\* `supplied ?? getSpec(specVersion).get<Name>Palette(...)`: the palette the
\* field gets, and the delegate object the call went to ("none": no call,
\* the right-hand side of ?? is not evaluated).
paletteField(supplied, name, specVersion, sourceColorHct, isDark, contrastLevel) ==
    IF supplied # Undefined
      THEN [palette |-> supplied, by |-> "none"]
      ELSE [palette |-> getPalette(getSpec(specVersion), name, sourceColorHct,
                                   isDark, contrastLevel),
            by |-> getSpec(specVersion)]

\* An error palette field without the last fallback (a variant).
errorPaletteFieldAsGenerated(supplied, specVersion, sourceColorHct, isDark, contrastLevel) ==
    paletteField(supplied, "errorPalette", specVersion, sourceColorHct, isDark,
                 contrastLevel)

\* The error palette has one more fallback: `?? fromHueAndChroma(25.0, 84.0)`.
errorPaletteField(supplied, specVersion, sourceColorHct, isDark, contrastLevel) ==
    LET f == paletteField(supplied, "errorPalette", specVersion, sourceColorHct,
                          isDark, contrastLevel)
    IN  IF f.palette # Undefined THEN f
        ELSE [palette |-> fromHueAndChroma(25, 84000), by |-> f.by]

\* new DynamicScheme(args): the fields of the new object (scheme) and, per
\* palette, the delegate object that generated it (calls).
DynamicScheme(a) ==
    LET contrastLevel == a.contrastLevel
        isDark == a.isDark
        specVersion == IF a.specVersion = "undefined" THEN "2021" ELSE a.specVersion
        src == a.sourceColorHct
        pp == paletteField(a.primaryPalette, "primaryPalette", specVersion, src,
                           isDark, contrastLevel)
        sp == paletteField(a.secondaryPalette, "secondaryPalette", specVersion, src,
                           isDark, contrastLevel)
        tp == paletteField(a.tertiaryPalette, "tertiaryPalette", specVersion, src,
                           isDark, contrastLevel)
        np == paletteField(a.neutralPalette, "neutralPalette", specVersion, src,
                           isDark, contrastLevel)
        nvp == paletteField(a.neutralVariantPalette, "neutralVariantPalette",
                            specVersion, src, isDark, contrastLevel)
        ep == errorPaletteField(a.errorPalette, specVersion, src, isDark,
                                contrastLevel)
    IN  [scheme |->
           [sourceColorArgb |-> HctFrom(src.hue, src.chroma, src.tone),
            contrastLevel |-> contrastLevel,
            isDark |-> isDark,
            specVersion |-> specVersion,
            sourceColorHct |-> src,
            primaryPalette |-> pp.palette,
            secondaryPalette |-> sp.palette,
            tertiaryPalette |-> tp.palette,
            neutralPalette |-> np.palette,
            neutralVariantPalette |-> nvp.palette,
            errorPalette |-> ep.palette],
         calls |->
           [primaryPalette |-> pp.by,
            secondaryPalette |-> sp.by,
            tertiaryPalette |-> tp.by,
            neutralPalette |-> np.by,
            neutralVariantPalette |-> nvp.by,
            errorPalette |-> ep.by]]

\* ------------------------------------------------------------------------
\* color_spec_2025: chroma-tone search
\* ------------------------------------------------------------------------

\* The while loop of findBestToneForChroma over its local variables.  best is
\* bestCandidate.chroma; samples counts the candidates built so far.
\* A loop that ends once half the chroma asked for is rendered (a variant).
findBestToneGoesOnToHalf(hue, chroma, byDecreasingTone, v) ==
    2 * v.best < chroma /\ ~(v.tone < 0 \/ v.tone > 100)

\* A loop that also ends at the first candidate that is no improvement (a
\* variant).
findBestToneGoesOnWhileImproving(hue, chroma, byDecreasingTone, v) ==
    v.best < chroma /\ ~(v.tone < 0 \/ v.tone > 100) /\ v.answer = v.tone

findBestToneGoesOn(hue, chroma, byDecreasingTone, v) ==
    v.best < chroma /\ ~(v.tone < 0 \/ v.tone > 100)

\* A loop body that takes every sampled tone as its answer (a variant).
findBestToneBodyAnswersLast(hue, chroma, byDecreasingTone, v) ==
    LET next == v.tone + (IF byDecreasingTone THEN 0 - 1 ELSE 1)
        newCandidate == HctChroma(hue, chroma, next)
    IN  [tone |-> next, answer |-> next,
         best |-> IF v.best < newCandidate THEN newCandidate ELSE v.best,
         samples |-> v.samples + 1]

\* A loop body that steps the tone by 2 (a variant).
findBestToneBodyStepsTwo(hue, chroma, byDecreasingTone, v) ==
    LET next == v.tone + (IF byDecreasingTone THEN 0 - 2 ELSE 2)
        newCandidate == HctChroma(hue, chroma, next)
    IN  IF v.best < newCandidate
          THEN [tone |-> next, answer |-> next, best |-> newCandidate,
                samples |-> v.samples + 1]
          ELSE [tone |-> next, answer |-> v.answer, best |-> v.best,
                samples |-> v.samples + 1]

findBestToneBody(hue, chroma, byDecreasingTone, v) ==
    LET next == v.tone + (IF byDecreasingTone THEN 0 - 1 ELSE 1)
        newCandidate == HctChroma(hue, chroma, next)
    IN  IF v.best < newCandidate
          THEN [tone |-> next, answer |-> next, best |-> newCandidate,
                samples |-> v.samples + 1]
          ELSE [tone |-> next, answer |-> v.answer, best |-> v.best,
                samples |-> v.samples + 1]

\* The values the loop's local variables take.
findBestToneVars == [tone : Int, answer : Int, best : Int, samples : Nat]

\* A search whose answer starts at tone 50 and not at the start tone (a
\* variant).
findBestToneSearchFromMiddle(hue, chroma, tone, byDecreasingTone) ==
    LET loop[v \in findBestToneVars] ==
            IF findBestToneGoesOn(hue, chroma, byDecreasingTone, v)
              THEN loop[findBestToneBody(hue, chroma, byDecreasingTone, v)]
              ELSE v
    IN  loop[[tone |-> tone, answer |-> 50,
              best |-> HctChroma(hue, chroma, tone), samples |-> 1]]

\* while (bestCandidate.chroma < chroma) { ... }, from the state after the
\* two assignments before it.
findBestToneSearch(hue, chroma, tone, byDecreasingTone) ==
    LET loop[v \in findBestToneVars] ==
            IF findBestToneGoesOn(hue, chroma, byDecreasingTone, v)
              THEN loop[findBestToneBody(hue, chroma, byDecreasingTone, v)]
              ELSE v
    IN  loop[[tone |-> tone, answer |-> tone,
              best |-> HctChroma(hue, chroma, tone), samples |-> 1]]

findBestToneForChroma(hue, chroma, tone, byDecreasingTone) ==
    findBestToneSearch(hue, chroma, tone, byDecreasingTone).answer

\* A tMaxC that returns the search's answer as it is (a variant).
tMaxCOfSearch(palette, lowerBound, upperBound, chromaMultiplier) ==
    findBestToneForChroma(palette.hue, (palette.chroma * chromaMultiplier) \div 10,
                          100, TRUE)

\* chromaMultiplier is in tenths; every call site leaves it at its default 1.
tMaxC(palette, lowerBound, upperBound, chromaMultiplier) ==
    LET answer == findBestToneForChroma(
                      palette.hue, (palette.chroma * chromaMultiplier) \div 10,
                      100, TRUE)
    IN  clampDouble(lowerBound, upperBound, answer)

tMinC(palette, lowerBound, upperBound) ==
    LET answer == findBestToneForChroma(palette.hue, palette.chroma, 0, FALSE)
    IN  clampDouble(lowerBound, upperBound, answer)

\* ------------------------------------------------------------------------
\* Contrast curves
\* ------------------------------------------------------------------------

ContrastCurve(low, normal, medium, high) ==
    [low |-> low, normal |-> normal, medium |-> medium, high |-> high]

\* A contrastCurve selector that returns undefined.
NoCurve == ContrastCurve(0, 0, 0, 0)

getCurve(defaultContrast) ==
    IF defaultContrast = 150 THEN ContrastCurve(150, 150, 300, 450)
    ELSE IF defaultContrast = 300 THEN ContrastCurve(300, 300, 450, 700)
    ELSE IF defaultContrast = 450 THEN ContrastCurve(450, 450, 700, 1100)
    ELSE IF defaultContrast = 600 THEN ContrastCurve(600, 600, 700, 1100)
    ELSE IF defaultContrast = 700 THEN ContrastCurve(700, 700, 1100, 2100)
    ELSE IF defaultContrast = 900 THEN ContrastCurve(900, 900, 1100, 2100)
    ELSE IF defaultContrast = 1100 THEN ContrastCurve(1100, 1100, 2100, 2100)
    ELSE IF defaultContrast = 2100 THEN ContrastCurve(2100, 2100, 2100, 2100)
    ELSE ContrastCurve(defaultContrast, defaultContrast, 700, 2100)

\* curve.get(contrastLevel): linear between the two bracketing points of
\* {-1, 0, 0.5, 1}, constant outside [-1, 1].
curveValueAt(curve, contrastLevel) ==
    IF contrastLevel <= 0 - 10 THEN curve.low
    ELSE IF contrastLevel < 0
      THEN curve.low + ((curve.normal - curve.low) * (contrastLevel + 10)) \div 10
    ELSE IF contrastLevel < 5
      THEN curve.normal + ((curve.medium - curve.normal) * contrastLevel) \div 5
    ELSE IF contrastLevel < 10
      THEN curve.medium + ((curve.high - curve.medium) * (contrastLevel - 5)) \div 5
    ELSE curve.high

\* ------------------------------------------------------------------------
\* Tone-delta pairs and node descriptors
\* ------------------------------------------------------------------------

ToneDeltaPair(roleA, roleB, delta, polarity, stayTogether, constraint) ==
    [roleA |-> roleA, roleB |-> roleB, delta |-> delta, polarity |-> polarity,
     stayTogether |-> stayTogether, constraint |-> constraint]

\* A toneDeltaPair selector that is absent or returns undefined.
NoPair == ToneDeltaPair("none", "none", 0, "none", FALSE, "none")

\* What DynamicColor.fromPalette fills in for the arguments left out.  A
\* node holds its tone selector by the name of the factory that wrote it
\* ("none": no tone selector); toneRule evaluates it.  toneOf names the role
\* whose getTone the tone selector calls, and toneScheme the scheme it passes
\* ("s", or "tempS" for the copy with isDark and contrastLevel overridden).
DynamicColorDefaults ==
    [tone |-> "none", toneOf |-> "none", toneScheme |-> "s",
     isBackground |-> FALSE, background |-> "none", contrastCurve |-> NoCurve,
     toneDeltaPair |-> NoPair, chromaMultiplier |-> 10]

fromPalette(args) == args @@ DynamicColorDefaults

\* A copy that overrides the contrast level only (a variant).
tempSOfSameMode(s) == [s EXCEPT !.contrastLevel = 0]

\* Object.assign({}, s, {isDark: false, contrastLevel: 0}): the copy.
tempS(s) == [s EXCEPT !.isDark = FALSE, !.contrastLevel = 0]

\* The values a DynamicScheme object's fields take.
HctValues == [hue : Int, chroma : Int, tone : Int]

PaletteValues == [hue : Int, chroma : Int]

SchemeValues ==
    [sourceColorArgb : HctValues, contrastLevel : Int, isDark : BOOLEAN,
     specVersion : {"2021", "2025"}, sourceColorHct : HctValues,
     primaryPalette : PaletteValues, secondaryPalette : PaletteValues,
     tertiaryPalette : PaletteValues, neutralPalette : PaletteValues,
     neutralVariantPalette : PaletteValues, errorPalette : PaletteValues]

RECURSIVE getTone(_, _)

\* ------------------------------------------------------------------------
\* ColorSpecDelegateImpl2025: the role catalog.  A role is named by its
\* factory method; a factory applied to a scheme gives the node with its
\* selectors evaluated on that scheme.
\* ------------------------------------------------------------------------

\* highestSurface with its branches exchanged (a variant).
highestSurfaceSwapped(s) == IF s.isDark THEN "surfaceDim" ELSE "surfaceBright"

highestSurface(s) == IF s.isDark THEN "surfaceBright" ELSE "surfaceDim"

primaryPaletteKeyColor(s) ==
    fromPalette([name |-> "primary_palette_key_color",
                 palette |-> "primaryPalette",
                 tone |-> "primaryPaletteKeyColor"])

secondaryPaletteKeyColor(s) ==
    fromPalette([name |-> "secondary_palette_key_color",
                 palette |-> "secondaryPalette",
                 tone |-> "secondaryPaletteKeyColor"])

tertiaryPaletteKeyColor(s) ==
    fromPalette([name |-> "tertiary_palette_key_color",
                 palette |-> "tertiaryPalette",
                 tone |-> "tertiaryPaletteKeyColor"])

neutralPaletteKeyColor(s) ==
    fromPalette([name |-> "neutral_palette_key_color",
                 palette |-> "neutralPalette",
                 tone |-> "neutralPaletteKeyColor"])

neutralVariantPaletteKeyColor(s) ==
    fromPalette([name |-> "neutral_variant_palette_key_color",
                 palette |-> "neutralVariantPalette",
                 tone |-> "neutralVariantPaletteKeyColor"])

errorPaletteKeyColor(s) ==
    fromPalette([name |-> "error_palette_key_color",
                 palette |-> "errorPalette",
                 tone |-> "errorPaletteKeyColor"])

\* A surface with the tone selector of inversePrimary (a variant).
surfaceOfPrimaryTone(s) ==
    fromPalette([name |-> "surface",
                 palette |-> "neutralPalette",
                 tone |-> "inversePrimary",
                 isBackground |-> TRUE])

surface(s) ==
    fromPalette([name |-> "surface",
                 palette |-> "neutralPalette",
                 tone |-> "surface",
                 isBackground |-> TRUE])

surfaceDim(s) ==
    fromPalette([name |-> "surface_dim",
                 palette |-> "neutralPalette",
                 tone |-> "surfaceDim",
                 isBackground |-> TRUE,
                 chromaMultiplier |-> IF ~s.isDark THEN 25 ELSE 10])

surfaceBright(s) ==
    fromPalette([name |-> "surface_bright",
                 palette |-> "neutralPalette",
                 tone |-> "surfaceBright",
                 isBackground |-> TRUE,
                 chromaMultiplier |-> IF s.isDark THEN 25 ELSE 10])

\* A lowest container with the tone selector of surfaceContainerLow (a
\* variant).
surfaceContainerLowestAsLow(s) ==
    fromPalette([name |-> "surface_container_lowest",
                 palette |-> "neutralPalette",
                 tone |-> "surfaceContainerLow",
                 isBackground |-> TRUE])

surfaceContainerLowest(s) ==
    fromPalette([name |-> "surface_container_lowest",
                 palette |-> "neutralPalette",
                 tone |-> "surfaceContainerLowest",
                 isBackground |-> TRUE])

surfaceContainerLow(s) ==
    fromPalette([name |-> "surface_container_low",
                 palette |-> "neutralPalette",
                 tone |-> "surfaceContainerLow",
                 isBackground |-> TRUE,
                 chromaMultiplier |-> 13])

surfaceContainer(s) ==
    fromPalette([name |-> "surface_container",
                 palette |-> "neutralPalette",
                 tone |-> "surfaceContainer",
                 isBackground |-> TRUE,
                 chromaMultiplier |-> 16])

surfaceContainerHigh(s) ==
    fromPalette([name |-> "surface_container_high",
                 palette |-> "neutralPalette",
                 tone |-> "surfaceContainerHigh",
                 isBackground |-> TRUE,
                 chromaMultiplier |-> 19])

surfaceContainerHighest(s) ==
    fromPalette([name |-> "surface_container_highest",
                 palette |-> "neutralPalette",
                 tone |-> "surfaceContainerHighest",
                 isBackground |-> TRUE,
                 chromaMultiplier |-> 22])

onSurface(s) ==
    fromPalette([name |-> "on_surface",
                 palette |-> "neutralPalette",
                 tone |-> "onSurface",
                 toneOf |-> highestSurface(s),
                 chromaMultiplier |-> 22,
                 background |-> highestSurface(s),
                 contrastCurve |-> IF s.isDark THEN getCurve(1100) ELSE getCurve(900)])

onSurfaceVariant(s) ==
    fromPalette([name |-> "on_surface_variant",
                 palette |-> "neutralPalette",
                 chromaMultiplier |-> 22,
                 background |-> highestSurface(s),
                 contrastCurve |-> IF s.isDark THEN getCurve(600) ELSE getCurve(450)])

\* An outline drawn from the neutral-variant palette (a variant).
outlineOfNeutralVariant(s) ==
    fromPalette([name |-> "outline",
                 palette |-> "neutralVariantPalette",
                 chromaMultiplier |-> 22,
                 background |-> highestSurface(s),
                 contrastCurve |-> getCurve(300)])

outline(s) ==
    fromPalette([name |-> "outline",
                 palette |-> "neutralPalette",
                 chromaMultiplier |-> 22,
                 background |-> highestSurface(s),
                 contrastCurve |-> getCurve(300)])

outlineVariant(s) ==
    fromPalette([name |-> "outline_variant",
                 palette |-> "neutralPalette",
                 chromaMultiplier |-> 22,
                 background |-> highestSurface(s),
                 contrastCurve |-> getCurve(150)])

inverseSurface(s) ==
    fromPalette([name |-> "inverse_surface",
                 palette |-> "neutralPalette",
                 tone |-> "inverseSurface",
                 isBackground |-> TRUE])

inverseOnSurface(s) ==
    fromPalette([name |-> "inverse_on_surface",
                 palette |-> "neutralPalette",
                 background |-> "inverseSurface",
                 contrastCurve |-> getCurve(700)])

shadow(s) ==
    fromPalette([name |-> "shadow",
                 palette |-> "neutralPalette",
                 tone |-> "shadow"])

scrim(s) ==
    fromPalette([name |-> "scrim",
                 palette |-> "neutralPalette",
                 tone |-> "scrim"])

primary(s) ==
    fromPalette([name |-> "primary",
                 palette |-> "primaryPalette",
                 tone |-> "primary",
                 isBackground |-> TRUE,
                 background |-> highestSurface(s),
                 contrastCurve |-> getCurve(450),
                 toneDeltaPair |-> ToneDeltaPair("primaryContainer", "primary", 5,
                                                 "relative_lighter", TRUE, "farther")])

primaryDim(s) ==
    fromPalette([name |-> "primary_dim",
                 palette |-> "primaryPalette",
                 tone |-> "primaryDim",
                 isBackground |-> TRUE,
                 background |-> "surfaceContainerHigh",
                 contrastCurve |-> getCurve(450),
                 toneDeltaPair |-> ToneDeltaPair("primaryDim", "primary", 5,
                                                 "darker", TRUE, "farther")])

onPrimary(s) ==
    fromPalette([name |-> "on_primary",
                 palette |-> "primaryPalette",
                 background |-> "primary",
                 contrastCurve |-> getCurve(600)])

\* A primaryContainer whose curve is there at every contrast level (a
\* variant).
primaryContainerWithCurve(s) ==
    fromPalette([name |-> "primary_container",
                 palette |-> "primaryPalette",
                 tone |-> "primaryContainer",
                 isBackground |-> TRUE,
                 background |-> highestSurface(s),
                 toneDeltaPair |-> NoPair,
                 contrastCurve |-> getCurve(150)])

primaryContainer(s) ==
    fromPalette([name |-> "primary_container",
                 palette |-> "primaryPalette",
                 tone |-> "primaryContainer",
                 isBackground |-> TRUE,
                 background |-> highestSurface(s),
                 toneDeltaPair |-> NoPair,
                 contrastCurve |-> IF s.contrastLevel > 0 THEN getCurve(150)
                                   ELSE NoCurve])

onPrimaryContainer(s) ==
    fromPalette([name |-> "on_primary_container",
                 palette |-> "primaryPalette",
                 background |-> "primaryContainer",
                 contrastCurve |-> getCurve(600)])

primaryFixed(s) ==
    fromPalette([name |-> "primary_fixed",
                 palette |-> "primaryPalette",
                 tone |-> "primaryFixed",
                 toneOf |-> "primaryContainer",
                 toneScheme |-> "tempS",
                 isBackground |-> TRUE,
                 background |-> highestSurface(s),
                 contrastCurve |-> IF s.contrastLevel > 0 THEN getCurve(150)
                                   ELSE NoCurve])

\* primaryFixedDim with a delta of 2 (a variant).
primaryFixedDimDeltaTwo(s) ==
    fromPalette([name |-> "primary_fixed_dim",
                 palette |-> "primaryPalette",
                 tone |-> "primaryFixedDim",
                 toneOf |-> "primaryFixed",
                 isBackground |-> TRUE,
                 toneDeltaPair |-> ToneDeltaPair("primaryFixedDim", "primaryFixed", 2,
                                                 "darker", TRUE, "exact")])

primaryFixedDim(s) ==
    fromPalette([name |-> "primary_fixed_dim",
                 palette |-> "primaryPalette",
                 tone |-> "primaryFixedDim",
                 toneOf |-> "primaryFixed",
                 isBackground |-> TRUE,
                 toneDeltaPair |-> ToneDeltaPair("primaryFixedDim", "primaryFixed", 5,
                                                 "darker", TRUE, "exact")])

\* An onPrimaryFixed drawn on onPrimaryFixedVariant (a variant).
onPrimaryFixedOnVariant(s) ==
    fromPalette([name |-> "on_primary_fixed",
                 palette |-> "primaryPalette",
                 background |-> "onPrimaryFixedVariant",
                 contrastCurve |-> getCurve(700)])

onPrimaryFixed(s) ==
    fromPalette([name |-> "on_primary_fixed",
                 palette |-> "primaryPalette",
                 background |-> "primaryFixedDim",
                 contrastCurve |-> getCurve(700)])

onPrimaryFixedVariant(s) ==
    fromPalette([name |-> "on_primary_fixed_variant",
                 palette |-> "primaryPalette",
                 background |-> "primaryFixedDim",
                 contrastCurve |-> getCurve(450)])

inversePrimary(s) ==
    fromPalette([name |-> "inverse_primary",
                 palette |-> "primaryPalette",
                 tone |-> "inversePrimary",
                 background |-> "inverseSurface",
                 contrastCurve |-> getCurve(600)])

secondary(s) ==
    fromPalette([name |-> "secondary",
                 palette |-> "secondaryPalette",
                 tone |-> "secondary",
                 isBackground |-> TRUE,
                 background |-> highestSurface(s),
                 contrastCurve |-> getCurve(450),
                 toneDeltaPair |-> ToneDeltaPair("secondaryContainer", "secondary", 5,
                                                 "relative_lighter", TRUE, "farther")])

\* A secondaryDim that declares the pair of primaryDim (a variant).
secondaryDimOfPrimaryPair(s) ==
    fromPalette([name |-> "secondary_dim",
                 palette |-> "secondaryPalette",
                 tone |-> "secondaryDim",
                 isBackground |-> TRUE,
                 background |-> "surfaceContainerHigh",
                 contrastCurve |-> getCurve(450),
                 toneDeltaPair |-> ToneDeltaPair("primaryDim", "primary", 5,
                                                 "darker", TRUE, "farther")])

secondaryDim(s) ==
    fromPalette([name |-> "secondary_dim",
                 palette |-> "secondaryPalette",
                 tone |-> "secondaryDim",
                 isBackground |-> TRUE,
                 background |-> "surfaceContainerHigh",
                 contrastCurve |-> getCurve(450),
                 toneDeltaPair |-> ToneDeltaPair("secondaryDim", "secondary", 5,
                                                 "darker", TRUE, "farther")])

onSecondary(s) ==
    fromPalette([name |-> "on_secondary",
                 palette |-> "secondaryPalette",
                 background |-> "secondary",
                 contrastCurve |-> getCurve(600)])

secondaryContainer(s) ==
    fromPalette([name |-> "secondary_container",
                 palette |-> "secondaryPalette",
                 tone |-> "secondaryContainer",
                 isBackground |-> TRUE,
                 background |-> highestSurface(s),
                 toneDeltaPair |-> NoPair,
                 contrastCurve |-> IF s.contrastLevel > 0 THEN getCurve(150)
                                   ELSE NoCurve])

onSecondaryContainer(s) ==
    fromPalette([name |-> "on_secondary_container",
                 palette |-> "secondaryPalette",
                 background |-> "secondaryContainer",
                 contrastCurve |-> getCurve(600)])

secondaryFixed(s) ==
    fromPalette([name |-> "secondary_fixed",
                 palette |-> "secondaryPalette",
                 tone |-> "secondaryFixed",
                 toneOf |-> "secondaryContainer",
                 toneScheme |-> "tempS",
                 isBackground |-> TRUE,
                 background |-> highestSurface(s),
                 contrastCurve |-> IF s.contrastLevel > 0 THEN getCurve(150)
                                   ELSE NoCurve])

secondaryFixedDim(s) ==
    fromPalette([name |-> "secondary_fixed_dim",
                 palette |-> "secondaryPalette",
                 tone |-> "secondaryFixedDim",
                 toneOf |-> "secondaryFixed",
                 isBackground |-> TRUE,
                 toneDeltaPair |-> ToneDeltaPair("secondaryFixedDim", "secondaryFixed", 5,
                                                 "darker", TRUE, "exact")])

onSecondaryFixed(s) ==
    fromPalette([name |-> "on_secondary_fixed",
                 palette |-> "secondaryPalette",
                 background |-> "secondaryFixedDim",
                 contrastCurve |-> getCurve(700)])

onSecondaryFixedVariant(s) ==
    fromPalette([name |-> "on_secondary_fixed_variant",
                 palette |-> "secondaryPalette",
                 background |-> "secondaryFixedDim",
                 contrastCurve |-> getCurve(450)])

tertiary(s) ==
    fromPalette([name |-> "tertiary",
                 palette |-> "tertiaryPalette",
                 tone |-> "tertiary",
                 isBackground |-> TRUE,
                 background |-> highestSurface(s),
                 contrastCurve |-> getCurve(450),
                 toneDeltaPair |-> ToneDeltaPair("tertiaryContainer", "tertiary", 5,
                                                 "relative_lighter", TRUE, "farther")])

tertiaryDim(s) ==
    fromPalette([name |-> "tertiary_dim",
                 palette |-> "tertiaryPalette",
                 tone |-> "tertiaryDim",
                 isBackground |-> TRUE,
                 background |-> "surfaceContainerHigh",
                 contrastCurve |-> getCurve(450),
                 toneDeltaPair |-> ToneDeltaPair("tertiaryDim", "tertiary", 5,
                                                 "darker", TRUE, "farther")])

onTertiary(s) ==
    fromPalette([name |-> "on_tertiary",
                 palette |-> "tertiaryPalette",
                 background |-> "tertiary",
                 contrastCurve |-> getCurve(600)])

tertiaryContainer(s) ==
    fromPalette([name |-> "tertiary_container",
                 palette |-> "tertiaryPalette",
                 tone |-> "tertiaryContainer",
                 isBackground |-> TRUE,
                 background |-> highestSurface(s),
                 toneDeltaPair |-> NoPair,
                 contrastCurve |-> IF s.contrastLevel > 0 THEN getCurve(150)
                                   ELSE NoCurve])

onTertiaryContainer(s) ==
    fromPalette([name |-> "on_tertiary_container",
                 palette |-> "tertiaryPalette",
                 background |-> "tertiaryContainer",
                 contrastCurve |-> getCurve(600)])

tertiaryFixed(s) ==
    fromPalette([name |-> "tertiary_fixed",
                 palette |-> "tertiaryPalette",
                 tone |-> "tertiaryFixed",
                 toneOf |-> "tertiaryContainer",
                 toneScheme |-> "tempS",
                 isBackground |-> TRUE,
                 background |-> highestSurface(s),
                 contrastCurve |-> IF s.contrastLevel > 0 THEN getCurve(150)
                                   ELSE NoCurve])

\* A tertiaryFixedDim that is not declared a background (a variant).
tertiaryFixedDimNotBackground(s) ==
    fromPalette([name |-> "tertiary_fixed_dim",
                 palette |-> "tertiaryPalette",
                 tone |-> "tertiaryFixedDim",
                 toneOf |-> "tertiaryFixed",
                 toneDeltaPair |-> ToneDeltaPair("tertiaryFixedDim", "tertiaryFixed", 5,
                                                 "darker", TRUE, "exact")])

tertiaryFixedDim(s) ==
    fromPalette([name |-> "tertiary_fixed_dim",
                 palette |-> "tertiaryPalette",
                 tone |-> "tertiaryFixedDim",
                 toneOf |-> "tertiaryFixed",
                 isBackground |-> TRUE,
                 toneDeltaPair |-> ToneDeltaPair("tertiaryFixedDim", "tertiaryFixed", 5,
                                                 "darker", TRUE, "exact")])

onTertiaryFixed(s) ==
    fromPalette([name |-> "on_tertiary_fixed",
                 palette |-> "tertiaryPalette",
                 background |-> "tertiaryFixedDim",
                 contrastCurve |-> getCurve(700)])

onTertiaryFixedVariant(s) ==
    fromPalette([name |-> "on_tertiary_fixed_variant",
                 palette |-> "tertiaryPalette",
                 background |-> "tertiaryFixedDim",
                 contrastCurve |-> getCurve(450)])

error(s) ==
    fromPalette([name |-> "error",
                 palette |-> "errorPalette",
                 tone |-> "error",
                 isBackground |-> TRUE,
                 background |-> highestSurface(s),
                 contrastCurve |-> getCurve(450),
                 toneDeltaPair |-> ToneDeltaPair("errorContainer", "error", 5,
                                                 "relative_lighter", TRUE, "farther")])

errorDim(s) ==
    fromPalette([name |-> "error_dim",
                 palette |-> "errorPalette",
                 tone |-> "errorDim",
                 isBackground |-> TRUE,
                 background |-> "surfaceContainerHigh",
                 contrastCurve |-> getCurve(450),
                 toneDeltaPair |-> ToneDeltaPair("errorDim", "error", 5,
                                                 "darker", TRUE, "farther")])

onError(s) ==
    fromPalette([name |-> "on_error",
                 palette |-> "errorPalette",
                 background |-> "error",
                 contrastCurve |-> getCurve(600)])

errorContainer(s) ==
    fromPalette([name |-> "error_container",
                 palette |-> "errorPalette",
                 tone |-> "errorContainer",
                 isBackground |-> TRUE,
                 background |-> highestSurface(s),
                 toneDeltaPair |-> NoPair,
                 contrastCurve |-> IF s.contrastLevel > 0 THEN getCurve(150)
                                   ELSE NoCurve])

onErrorContainer(s) ==
    fromPalette([name |-> "on_error_container",
                 palette |-> "errorPalette",
                 background |-> "errorContainer",
                 contrastCurve |-> getCurve(450)])

\* The remapped roles.  Each factory makes the node of its source role, a
\* clone of it, and overwrites the clone's name.  The objects a factory makes
\* are kept in order of creation; the newest is the one it works on.

\* node.clone(): a new object with the fields of the newest one.
clone(objects) == Append(objects, objects[Len(objects)])

\* Object.assign(target, props): the target, here the newest object, with
\* the given fields overwritten.
assign(objects, props) ==
    [objects EXCEPT ![Len(objects)] = props @@ objects[Len(objects)]]

surfaceVariantObjects(s) ==
    assign(clone(<<surfaceContainerHighest(s)>>), [name |-> "surface_variant"])

surfaceVariant(s) == surfaceVariantObjects(s)[Len(surfaceVariantObjects(s))]

\* surfaceTint without the clone (a variant).
surfaceTintAssignsSource(s) ==
    assign(<<primary(s)>>, [name |-> "surface_tint"])

surfaceTintObjects(s) ==
    assign(clone(<<primary(s)>>), [name |-> "surface_tint"])

surfaceTint(s) == surfaceTintObjects(s)[Len(surfaceTintObjects(s))]

backgroundObjects(s) ==
    assign(clone(<<surface(s)>>), [name |-> "background"])

background(s) == backgroundObjects(s)[Len(backgroundObjects(s))]

onBackgroundObjects(s) ==
    assign(clone(<<onSurface(s)>>), [name |-> "on_background"])

onBackground(s) == onBackgroundObjects(s)[Len(onBackgroundObjects(s))]

\* node.tone(s): the tone selector written by a factory, evaluated on s.
toneRule(tone, s, toneOf) ==
    CASE tone = "primaryPaletteKeyColor" ->
           KeyTone(s.primaryPalette)
      [] tone = "secondaryPaletteKeyColor" ->
           KeyTone(s.secondaryPalette)
      [] tone = "tertiaryPaletteKeyColor" ->
           KeyTone(s.tertiaryPalette)
      [] tone = "neutralPaletteKeyColor" ->
           KeyTone(s.neutralPalette)
      [] tone = "neutralVariantPaletteKeyColor" ->
           KeyTone(s.neutralVariantPalette)
      [] tone = "errorPaletteKeyColor" ->
           KeyTone(s.errorPalette)
      [] tone = "surface" ->
           IF s.isDark THEN 4 ELSE IF isYellow(s.neutralPalette.hue) THEN 99 ELSE 98
      [] tone = "surfaceDim" ->
           IF s.isDark THEN 4 ELSE IF isYellow(s.neutralPalette.hue) THEN 90 ELSE 87
      [] tone = "surfaceBright" ->
           IF s.isDark THEN 18 ELSE IF isYellow(s.neutralPalette.hue) THEN 99 ELSE 98
      [] tone = "surfaceContainerLowest" ->
           IF s.isDark THEN 0 ELSE 100
      [] tone = "surfaceContainerLow" ->
           IF s.isDark THEN 6 ELSE IF isYellow(s.neutralPalette.hue) THEN 98 ELSE 96
      [] tone = "surfaceContainer" ->
           IF s.isDark THEN 9 ELSE IF isYellow(s.neutralPalette.hue) THEN 96 ELSE 94
      [] tone = "surfaceContainerHigh" ->
           IF s.isDark THEN 12 ELSE IF isYellow(s.neutralPalette.hue) THEN 94 ELSE 92
      [] tone = "surfaceContainerHighest" ->
           IF s.isDark THEN 15 ELSE IF isYellow(s.neutralPalette.hue) THEN 92 ELSE 90
      [] tone = "onSurface" ->
           toneOf
      [] tone = "inverseSurface" ->
           IF s.isDark THEN 98 ELSE 4
      [] tone = "shadow" ->
           0
      [] tone = "scrim" ->
           0
      [] tone = "primary" ->
           IF s.isDark THEN 80 ELSE 40
      [] tone = "primaryDim" ->
           85
      [] tone = "primaryContainer" ->
           IF s.isDark THEN 30 ELSE 90
      [] tone = "primaryFixed" ->
           toneOf
      [] tone = "primaryFixedDim" ->
           toneOf
      [] tone = "inversePrimary" ->
           tMaxC(s.primaryPalette, 0, 100, 10)
      [] tone = "secondary" ->
           IF s.isDark THEN tMinC(s.secondaryPalette, 0, 98) ELSE tMaxC(s.secondaryPalette, 0, 100, 10)
      [] tone = "secondaryDim" ->
           85
      [] tone = "secondaryContainer" ->
           IF s.isDark THEN 25 ELSE 90
      [] tone = "secondaryFixed" ->
           toneOf
      [] tone = "secondaryFixedDim" ->
           toneOf
      [] tone = "tertiary" ->
           IF s.isDark THEN tMaxC(s.tertiaryPalette, 0, 98, 10) ELSE tMaxC(s.tertiaryPalette, 0, 100, 10)
      [] tone = "tertiaryDim" ->
           tMaxC(s.tertiaryPalette, 0, 100, 10)
      [] tone = "tertiaryContainer" ->
           IF s.isDark THEN tMaxC(s.tertiaryPalette, 0, 93, 10) ELSE tMaxC(s.tertiaryPalette, 0, 96, 10)
      [] tone = "tertiaryFixed" ->
           toneOf
      [] tone = "tertiaryFixedDim" ->
           toneOf
      [] tone = "error" ->
           IF s.isDark THEN tMinC(s.errorPalette, 0, 98) ELSE tMaxC(s.errorPalette, 0, 100, 10)
      [] tone = "errorDim" ->
           tMinC(s.errorPalette, 0, 100)
      [] tone = "errorContainer" ->
           IF s.isDark THEN tMinC(s.errorPalette, 30, 93) ELSE tMaxC(s.errorPalette, 0, 90, 10)

\* Every role of the catalog.
Roles ==
    {"primaryPaletteKeyColor", "secondaryPaletteKeyColor", "tertiaryPaletteKeyColor", "neutralPaletteKeyColor",
     "neutralVariantPaletteKeyColor", "errorPaletteKeyColor", "surface", "surfaceDim",
     "surfaceBright", "surfaceContainerLowest", "surfaceContainerLow", "surfaceContainer",
     "surfaceContainerHigh", "surfaceContainerHighest", "onSurface", "onSurfaceVariant",
     "outline", "outlineVariant", "inverseSurface", "inverseOnSurface",
     "shadow", "scrim", "primary", "primaryDim",
     "onPrimary", "primaryContainer", "onPrimaryContainer", "primaryFixed",
     "primaryFixedDim", "onPrimaryFixed", "onPrimaryFixedVariant", "inversePrimary",
     "secondary", "secondaryDim", "onSecondary", "secondaryContainer",
     "onSecondaryContainer", "secondaryFixed", "secondaryFixedDim", "onSecondaryFixed",
     "onSecondaryFixedVariant", "tertiary", "tertiaryDim", "onTertiary",
     "tertiaryContainer", "onTertiaryContainer", "tertiaryFixed", "tertiaryFixedDim",
     "onTertiaryFixed", "onTertiaryFixedVariant", "error", "errorDim",
     "onError", "errorContainer", "onErrorContainer", "surfaceVariant",
     "surfaceTint", "background", "onBackground"}

\* this.colors.<role>() under the 2025 catalog: the node of a role.
Node(role, s) ==
    CASE role = "primaryPaletteKeyColor" -> primaryPaletteKeyColor(s)
      [] role = "secondaryPaletteKeyColor" -> secondaryPaletteKeyColor(s)
      [] role = "tertiaryPaletteKeyColor" -> tertiaryPaletteKeyColor(s)
      [] role = "neutralPaletteKeyColor" -> neutralPaletteKeyColor(s)
      [] role = "neutralVariantPaletteKeyColor" -> neutralVariantPaletteKeyColor(s)
      [] role = "errorPaletteKeyColor" -> errorPaletteKeyColor(s)
      [] role = "surface" -> surface(s)
      [] role = "surfaceDim" -> surfaceDim(s)
      [] role = "surfaceBright" -> surfaceBright(s)
      [] role = "surfaceContainerLowest" -> surfaceContainerLowest(s)
      [] role = "surfaceContainerLow" -> surfaceContainerLow(s)
      [] role = "surfaceContainer" -> surfaceContainer(s)
      [] role = "surfaceContainerHigh" -> surfaceContainerHigh(s)
      [] role = "surfaceContainerHighest" -> surfaceContainerHighest(s)
      [] role = "onSurface" -> onSurface(s)
      [] role = "onSurfaceVariant" -> onSurfaceVariant(s)
      [] role = "outline" -> outline(s)
      [] role = "outlineVariant" -> outlineVariant(s)
      [] role = "inverseSurface" -> inverseSurface(s)
      [] role = "inverseOnSurface" -> inverseOnSurface(s)
      [] role = "shadow" -> shadow(s)
      [] role = "scrim" -> scrim(s)
      [] role = "primary" -> primary(s)
      [] role = "primaryDim" -> primaryDim(s)
      [] role = "onPrimary" -> onPrimary(s)
      [] role = "primaryContainer" -> primaryContainer(s)
      [] role = "onPrimaryContainer" -> onPrimaryContainer(s)
      [] role = "primaryFixed" -> primaryFixed(s)
      [] role = "primaryFixedDim" -> primaryFixedDim(s)
      [] role = "onPrimaryFixed" -> onPrimaryFixed(s)
      [] role = "onPrimaryFixedVariant" -> onPrimaryFixedVariant(s)
      [] role = "inversePrimary" -> inversePrimary(s)
      [] role = "secondary" -> secondary(s)
      [] role = "secondaryDim" -> secondaryDim(s)
      [] role = "onSecondary" -> onSecondary(s)
      [] role = "secondaryContainer" -> secondaryContainer(s)
      [] role = "onSecondaryContainer" -> onSecondaryContainer(s)
      [] role = "secondaryFixed" -> secondaryFixed(s)
      [] role = "secondaryFixedDim" -> secondaryFixedDim(s)
      [] role = "onSecondaryFixed" -> onSecondaryFixed(s)
      [] role = "onSecondaryFixedVariant" -> onSecondaryFixedVariant(s)
      [] role = "tertiary" -> tertiary(s)
      [] role = "tertiaryDim" -> tertiaryDim(s)
      [] role = "onTertiary" -> onTertiary(s)
      [] role = "tertiaryContainer" -> tertiaryContainer(s)
      [] role = "onTertiaryContainer" -> onTertiaryContainer(s)
      [] role = "tertiaryFixed" -> tertiaryFixed(s)
      [] role = "tertiaryFixedDim" -> tertiaryFixedDim(s)
      [] role = "onTertiaryFixed" -> onTertiaryFixed(s)
      [] role = "onTertiaryFixedVariant" -> onTertiaryFixedVariant(s)
      [] role = "error" -> error(s)
      [] role = "errorDim" -> errorDim(s)
      [] role = "onError" -> onError(s)
      [] role = "errorContainer" -> errorContainer(s)
      [] role = "onErrorContainer" -> onErrorContainer(s)
      [] role = "surfaceVariant" -> surfaceVariant(s)
      [] role = "surfaceTint" -> surfaceTint(s)
      [] role = "background" -> background(s)
      [] role = "onBackground" -> onBackground(s)

\* ------------------------------------------------------------------------
\* Contrast between tones (colour-space capability)
\* ------------------------------------------------------------------------

\* Relative luminance Y of a tone (L*), in hundredths: 0 .. 10000.
yFromLstar(tone) ==
    IF tone > 8
      THEN ((tone + 16) * (tone + 16) * (tone + 16) * 100 + 7804) \div 15609
      ELSE (tone * 100000) \div 9033

\* Contrast ratio of two tones, in hundredths: 100 .. 2100.
ratioOfTones(toneA, toneB) ==
    LET ratio[lighter \in Int, darker \in Int] ==
            ((yFromLstar(lighter) + 500) * 100) \div (yFromLstar(darker) + 500)
    IN  ratio[Max2(toneA, toneB), Min2(toneA, toneB)]

\* A foreground tone that stays three tones from the background, whatever
\* the ratio (a variant).
foregroundToneNearby(bgTone, ratio) ==
    IF bgTone >= 50 THEN bgTone - 3 ELSE bgTone + 3

\* The tone that meets a contrast ratio against a background tone.  The
\* search runs on the side of the background tone that offers the larger
\* contrast and takes the tone nearest to the background that meets the
\* ratio; when no tone does, it ends at that side's extreme.
foregroundTone(bgTone, ratio) ==
    LET search[bg \in Int, r \in Int] ==
            LET lighterSide == ratioOfTones(100, bg) >= ratioOfTones(bg, 0)
                ok == IF lighterSide
                        THEN {t \in bg..100 : ratioOfTones(t, bg) >= r}
                        ELSE {t \in 0..bg : ratioOfTones(t, bg) >= r}
            IN  IF ok = {} THEN (IF lighterSide THEN 100 ELSE 0)
                ELSE IF lighterSide THEN Least(ok)
                ELSE CHOOSE t \in ok : \A u \in ok : t >= u
    IN  search[bgTone, ratio]

\* ------------------------------------------------------------------------
\* DynamicColor: tone resolution
\* ------------------------------------------------------------------------

\* The tone-delta pair constraint applied to the node being resolved (the
\* follower); its partner's resolved tone is the anchor.
applyToneDeltaPair(node, selfTone, refTone, s) ==
    LET pair == node.toneDeltaPair
        amRoleA == node.name = Node(pair.roleA, s).name
        aIsLighter == pair.polarity = "lighter"
                        \/ (pair.polarity = "relative_lighter" /\ ~s.isDark)
                        \/ (pair.polarity = "relative_darker" /\ s.isDark)
        absoluteDelta == IF aIsLighter THEN pair.delta ELSE 0 - pair.delta
        relativeDelta == IF amRoleA THEN absoluteDelta ELSE 0 - absoluteDelta
        wanted == refTone + relativeDelta
    IN  CASE pair.constraint = "exact" -> wanted
          [] pair.constraint = "farther" ->
               IF relativeDelta > 0 THEN Max2(selfTone, wanted)
                                    ELSE Min2(selfTone, wanted)
          [] pair.constraint = "nearer" ->
               IF relativeDelta > 0 THEN clampDouble(refTone, wanted, selfTone)
                                    ELSE clampDouble(wanted, refTone, selfTone)
          [] OTHER -> selfTone

\* The roles whose resolved tone a resolution of the node reads, by the use
\* it makes of each: the role its tone selector resolves, its background
\* when a contrast curve is in effect, and its partner in a tone-delta pair.
reads(node, s) ==
    [toneOf |-> node.toneOf,
     background |-> IF node.contrastCurve # NoCurve THEN node.background
                    ELSE "none",
     partner |-> IF node.toneDeltaPair = NoPair THEN "none"
                 ELSE IF node.name = Node(node.toneDeltaPair.roleA, s).name
                   THEN node.toneDeltaPair.roleB
                 ELSE node.toneDeltaPair.roleA]

Uses == {"toneOf", "background", "partner"}

\* The resolved tones a resolution of the node reads, each read once.
readTones(node, s) ==
    [use \in Uses |->
       IF reads(node, s)[use] = "none" THEN 0
       ELSE getTone(reads(node, s)[use],
                    IF use = "toneOf" /\ node.toneScheme = "tempS"
                      THEN tempS(s) ELSE s)]

\* The tone of the node from the resolved tones t it read, before the last
\* clamp to [0, 100].
resolveFrom(node, s, t) ==
    LET hasCurve == node.background # "none" /\ node.contrastCurve # NoCurve
        target == curveValueAt(node.contrastCurve, s.contrastLevel)
        base == IF node.tone # "none"
                  THEN clampDouble(0, 100, toneRule(node.tone, s, t.toneOf))
                ELSE IF hasCurve THEN foregroundTone(t.background, target)
                ELSE KeyTone(s[node.palette])
        own == IF hasCurve /\ ratioOfTones(base, t.background) < target
                 THEN foregroundTone(t.background, target)
                 ELSE base
    IN  IF node.toneDeltaPair # NoPair
          THEN applyToneDeltaPair(node, own, t.partner, s)
          ELSE own

resolveTone(node, s) ==
    LET from[t \in [Uses -> Int]] == resolveFrom(node, s, t)
    IN  from[readTones(node, s)]

\* dynamicColor.getTone(scheme)
getTone(role, s) == clampDouble(0, 100, resolveTone(Node(role, s), s))

\* dynamicColor.getHct(scheme): the palette sampled at the resolved tone with
\* its chroma multiplied and clipped into gamut.
hctAt(role, s, tone) ==
    LET node == Node(role, s)
        palette == s[node.palette]
    IN  HctFrom(palette.hue, (palette.chroma * node.chromaMultiplier) \div 10,
                tone)

getHct(role, s) == hctAt(role, s, getTone(role, s))

\* dynamicColor.getArgb(scheme): the pixel of the resolved colour.
getArgb(role, s) == getHct(role, s)

\* ------------------------------------------------------------------------
\* What a resolution touches
\* ------------------------------------------------------------------------

\* The roles whose getTone a resolution of `role` calls directly.
resolves(role, s) ==
    {reads(Node(role, s), s)[use] : use \in Uses} \ {"none"}

\* Whether a resolution of `role` runs a tone selector that builds tempS.
RECURSIVE buildsTempS(_, _)
buildsTempS(role, s) ==
    Node(role, s).toneScheme = "tempS"
      \/ \E r \in resolves(role, s) : buildsTempS(r, s)

\* Object.assign(s, {isDark: false, contrastLevel: 0}), which writes s itself
\* (a variant).
assignedToS(s) == [s EXCEPT !.isDark = FALSE, !.contrastLevel = 0]

\* The scheme s after a tone selector ran
\* `Object.assign({}, s, {isDark: false, contrastLevel: 0})`: the target of
\* the assignment is the new object {}, s is only read.
afterTempS(s) == s

\* The scheme after a resolution of `role` on it.
schemeAfter(role, s) == IF buildsTempS(role, s) THEN afterTempS(s) ELSE s

\* ------------------------------------------------------------------------
\* The scheme's role getters
\* ------------------------------------------------------------------------

DimRoles == {"primaryDim", "secondaryDim", "tertiaryDim", "errorDim"}

\* this.colors.<role>(): the node the active catalog gives for a role, by
\* the name of its factory; "undefined" for a role the 2021 baseline lacks.
colors(role, s) ==
    IF s.specVersion = "2025" THEN role
    ELSE IF role \in DimRoles THEN "undefined"
    ELSE role

\* The node objects a lookup of `role` creates, in order of creation; the
\* newest one is the node returned.
lookupObjects(role, s) ==
    IF colors(role, s) = "undefined" THEN << >>
    ELSE CASE role = "surfaceVariant" -> surfaceVariantObjects(s)
           [] role = "surfaceTint" -> surfaceTintObjects(s)
           [] role = "background" -> backgroundObjects(s)
           [] role = "onBackground" -> onBackgroundObjects(s)
           [] OTHER -> << Node(role, s) >>

NoColor == [hue |-> 0, chroma |-> 0, tone |-> 0]

\* What a getter gave its caller: an error and no colour, or the pixel (with
\* the resolved tone and colour behind it).
Thrown(role) ==
    [role |-> role, error |-> TRUE, tone |-> 0, hct |-> NoColor, argb |-> NoColor,
     objects |-> << >>]

Returned(role, s) ==
    LET of[pixel \in HctValues] ==
            [role |-> role, error |-> FALSE, tone |-> pixel.tone, hct |-> pixel,
             argb |-> pixel, objects |-> lookupObjects(role, s)]
    IN  of[getArgb(role, s)]

\* A dim getter that makes no test (a variant, to show what rests on it).
dimNeverThrows(role, s) == FALSE

\* The test of a dim getter: const c = this.colors.<role>(); if (c ===
\* undefined) throw new Error(...).  The other getters make no test.
dimThrows(role, s) == role \in DimRoles /\ colors(role, s) = "undefined"

\* scheme.<role>: return this.getArgb(this.colors.<role>()).
getter(role, s) ==
    IF dimThrows(role, s) THEN Thrown(role) ELSE Returned(role, s)

\* ------------------------------------------------------------------------
\* Inputs
\* ------------------------------------------------------------------------

SourceHues == {20, 110, 255, 340}

ContrastLevels == {0 - 10, 0, 5, 10}

SpecVersions == {"undefined", "2021", "2025"}

\* The palette a caller supplies for a field, one per field.
SuppliedPalette ==
    [primaryPalette |-> fromHueAndChroma(255, 48000),
     secondaryPalette |-> fromHueAndChroma(340, 70000),
     tertiaryPalette |-> fromHueAndChroma(110, 0),
     neutralPalette |-> fromHueAndChroma(110, 6000),
     neutralVariantPalette |-> fromHueAndChroma(50, 8000),
     errorPalette |-> fromHueAndChroma(25, 120000)]

Options(hue, isDark, contrastLevel, specVersion, supplied) ==
    [sourceColorHct |-> [hue |-> hue, chroma |-> 50000, tone |-> 50],
     contrastLevel |-> contrastLevel,
     isDark |-> isDark,
     specVersion |-> specVersion,
     primaryPalette |->
       IF "primaryPalette" \in supplied THEN SuppliedPalette.primaryPalette
       ELSE Undefined,
     secondaryPalette |->
       IF "secondaryPalette" \in supplied THEN SuppliedPalette.secondaryPalette
       ELSE Undefined,
     tertiaryPalette |->
       IF "tertiaryPalette" \in supplied THEN SuppliedPalette.tertiaryPalette
       ELSE Undefined,
     neutralPalette |->
       IF "neutralPalette" \in supplied THEN SuppliedPalette.neutralPalette
       ELSE Undefined,
     neutralVariantPalette |->
       IF "neutralVariantPalette" \in supplied
         THEN SuppliedPalette.neutralVariantPalette
       ELSE Undefined,
     errorPalette |->
       IF "errorPalette" \in supplied THEN SuppliedPalette.errorPalette
       ELSE Undefined]

\* The constructor arguments of the model: every source hue, mode, contrast
\* level and version without supplied palettes; every mode and contrast level
\* with all six supplied; and every choice of supplied palettes for one seed
\* (under the 2025 version: one palette supplied, or one left out); and the
\* red seed of hue 0 in light mode at the standard contrast level.
AllOptions ==
    {Options(h, d, c, v, {}) :
        h \in SourceHues, d \in BOOLEAN, c \in ContrastLevels, v \in SpecVersions}
    \cup {Options(20, d, c, "2025", PaletteNames) :
            d \in BOOLEAN, c \in ContrastLevels}
    \cup {Options(20, FALSE, 0, v, S) :
            v \in {"undefined", "2021"}, S \in SUBSET PaletteNames}
    \cup {Options(20, FALSE, 0, "2025", S) :
            S \in {T \in SUBSET PaletteNames : Cardinality(T) \in {1, 5}}}
    \cup {Options(0, FALSE, 0, v, {}) : v \in SpecVersions}

\* ------------------------------------------------------------------------
\* State
\* ------------------------------------------------------------------------

VARIABLES
    args,       \* the options the scheme was constructed from
    scheme,     \* the fields of the DynamicScheme object
    calls,      \* per palette, the delegate object the constructor called
    first,      \* the first getter call on the scheme and what it gave
    between,    \* whether a getter of another role was called since
    again,      \* the latest repeated call of the first getter
    other,      \* a second scheme, once constructed
    tasks,      \* the resolutions in progress, by task
    call        \* the latest call of a static or module-level function

vars == <<args, scheme, calls, first, between, again, other, tasks, call>>

NoLookup ==
    [role |-> "none", error |-> FALSE, tone |-> 0, hct |-> NoColor,
     argb |-> NoColor, objects |-> << >>, afterOther |-> FALSE]

\* Number of resolutions that run at the same time.
MaxTasks == 2

Tasks == 1 .. MaxTasks

NoScheme == [built |-> FALSE]

NoReads == [use \in Uses |-> 0]

\* No function called yet.
NoCall == [op |-> "none"]

Idle ==
    [pc |-> "idle", role |-> "none", on |-> 0, read |-> NoReads, tone |-> 0,
     argb |-> NoColor]

\* The state after `new DynamicScheme(args)`.
Init ==
    /\ args \in AllOptions
    /\ scheme = DynamicScheme(args).scheme
    /\ calls = DynamicScheme(args).calls
    /\ first = NoLookup
    /\ between = FALSE
    /\ again = NoLookup
    /\ other = NoScheme
    /\ tasks = [t \in Tasks |-> Idle]
    /\ call = NoCall

\* The roles with a modelled catalog entry under the scheme's version: all of
\* them under 2025; under the 2021 baseline only the absence of the dim roles.
Known(role) == scheme.specVersion = "2025" \/ role \in DimRoles

\* scheme.<role>: one getter call, whole.
Get(role) ==
    /\ Known(role)
    /\ scheme' = IF dimThrows(role, scheme) THEN scheme
                 ELSE schemeAfter(role, scheme)
    /\ IF first.role # "none" /\ role # first.role
         THEN /\ between' = TRUE
              /\ UNCHANGED <<first, again>>
         ELSE \E given \in {getter(role, scheme)} :
                IF first.role = "none"
                  THEN /\ first' = given @@ [afterOther |-> FALSE]
                       /\ UNCHANGED <<between, again>>
                  ELSE /\ again' = given @@ [afterOther |-> between]
                       /\ UNCHANGED <<first, between>>
    /\ UNCHANGED <<args, calls, other, tasks, call>>

Next == \E role \in Roles : Get(role)

Spec == Init /\ [][Next]_vars

\* ------------------------------------------------------------------------
\* Resolutions that overlap.  A resolution of a role first resolves the roles
\* it reads, then computes its own tone from their tones; between the two,
\* and before and after, other resolutions and the construction of another
\* scheme may run.
\* ------------------------------------------------------------------------

ConcOptions ==
    {Options(20, TRUE, 10, "2025", {}), Options(255, FALSE, 0, "2025", {})}

OtherOptions == Options(110, TRUE, 5, "2025", {"primaryPalette"})

ConcRoles == {"primary", "primaryFixed", "onPrimaryFixed"}

InitConc ==
    /\ args \in ConcOptions
    /\ scheme = DynamicScheme(args).scheme
    /\ calls = DynamicScheme(args).calls
    /\ first = NoLookup
    /\ between = FALSE
    /\ again = NoLookup
    /\ other = NoScheme
    /\ tasks = [t \in Tasks |-> Idle]
    /\ call = NoCall

\* The scheme a task works on: 1 is `scheme`, 2 is `other`.
schemeOf(on) == IF on = 1 THEN scheme ELSE other.scheme

\* new DynamicScheme(OtherOptions), through the same getSpec delegates.
Construct ==
    /\ ~other.built
    /\ other' = [built |-> TRUE, args |-> OtherOptions,
                 scheme |-> DynamicScheme(OtherOptions).scheme]
    /\ UNCHANGED <<args, scheme, calls, first, between, again, tasks, call>>

\* A task calls a getter: the catalog makes the role's node.
Start(t, role, on) ==
    /\ tasks[t].pc = "idle"
    /\ on = 2 => other.built
    /\ tasks' = [tasks EXCEPT ![t] = [Idle EXCEPT !.pc = "started",
                                                   !.role = role, !.on = on]]
    /\ UNCHANGED <<args, scheme, calls, first, between, again, other, call>>

\* The task resolves the roles its role reads.
Read(t) ==
    /\ tasks[t].pc = "started"
    /\ LET s == schemeOf(tasks[t].on)
           role == tasks[t].role
       IN  /\ tasks' = [tasks EXCEPT ![t].pc = "read",
                                     ![t].read = readTones(Node(role, s), s)]
           /\ IF tasks[t].on = 1
                THEN /\ scheme' = schemeAfter(role, s)
                     /\ UNCHANGED other
                ELSE /\ other' = [other EXCEPT !.scheme = schemeAfter(role, s)]
                     /\ UNCHANGED scheme
    /\ UNCHANGED <<args, calls, first, between, again, call>>

\* The task computes its role's tone from the tones it read and samples the
\* palette.
Finish(t) ==
    /\ tasks[t].pc = "read"
    /\ LET s == schemeOf(tasks[t].on)
           role == tasks[t].role
       IN  \E tone \in {clampDouble(0, 100,
                                    resolveFrom(Node(role, s), s, tasks[t].read))} :
             tasks' = [tasks EXCEPT ![t].pc = "done", ![t].tone = tone,
                                    ![t].argb = hctAt(role, s, tone)]
    /\ UNCHANGED <<args, scheme, calls, first, between, again, other, call>>

NextConc ==
    \/ Construct
    \/ \E t \in Tasks, role \in ConcRoles, on \in {1, 2} : Start(t, role, on)
    \/ \E t \in Tasks : Read(t)
    \/ \E t \in Tasks : Finish(t)

SpecConc == InitConc /\ [][NextConc]_vars

\* ------------------------------------------------------------------------
\* Calls of the static hue functions of DynamicScheme and of the chroma-tone
\* search of color_spec_2025, on their own.
\* ------------------------------------------------------------------------

\* Source hues handed to the hue functions.
CallHues == {0, 20, 37, 38, 99, 100, 150, 199, 200, 255, 340, 359}

\* Breakpoint tables with their hue or rotation tables: the two tables of the
\* 2025 palette delegate, the table of the doc comments, empty tables, a
\* table one entry short, a table with entries to spare, tables that leave
\* hues uncovered, and breakpoints out of order.
HueTables ==
    {[hueBreakpoints |-> <<0, 38, 105, 161, 204, 278, 333, 360>>,
      table |-> <<0 - 32, 26, 10, 0 - 39, 24, 0 - 15, 0 - 32>>],
     [hueBreakpoints |-> <<0, 3, 13, 23, 33, 43, 153, 273, 360>>,
      table |-> <<12, 22, 32, 12, 22, 32, 22, 12>>],
     [hueBreakpoints |-> <<0, 101, 210, 360>>, table |-> <<26, 0 - 39, 28>>],
     [hueBreakpoints |-> << >>, table |-> << >>],
     [hueBreakpoints |-> <<0, 360>>, table |-> << >>],
     [hueBreakpoints |-> <<50>>, table |-> <<10>>],
     [hueBreakpoints |-> <<0, 101, 210, 360>>, table |-> <<26, 400>>],
     [hueBreakpoints |-> <<0, 101, 210>>, table |-> <<26, 0 - 39, 28, 5>>],
     [hueBreakpoints |-> <<100, 200>>, table |-> <<30>>],
     [hueBreakpoints |-> <<0, 200, 100, 360>>, table |-> <<10, 20, 30>>]}

\* Palettes handed to the search: the chromas the palette delegates give,
\* chromas of supplied palettes, and chromas no tone renders in full.
CallPalettes ==
    {fromHueAndChroma(h, c) :
       h \in SourceHues, c \in {0, 8000, 20000, 48000, 70000, 120000}}

\* Windows handed to tMaxC and tMinC: those of the factories, and three more.
CallWindows ==
    {<<0, 100>>, <<0, 98>>, <<0, 96>>, <<0, 93>>, <<0, 90>>, <<30, 93>>,
     <<50, 50>>, <<60, 100>>, <<0, 20>>}

\* Every whole source hue, handed to the palette delegate of 2025.
AllHues == 0 .. 359

InitCalls ==
    /\ args = Options(20, FALSE, 0, "2025", {})
    /\ scheme = DynamicScheme(args).scheme
    /\ calls = DynamicScheme(args).calls
    /\ first = NoLookup
    /\ between = FALSE
    /\ again = NoLookup
    /\ other = NoScheme
    /\ tasks = [t \in Tasks |-> Idle]
    /\ call = NoCall

\* DynamicScheme.getPiecewiseHue(sourceColorHct, hueBreakpoints, hues)
CallGetPiecewiseHue(hue, tables) ==
    /\ call' = [op |-> "getPiecewiseHue", hue |-> hue,
                hueBreakpoints |-> tables.hueBreakpoints, table |-> tables.table,
                out |-> getPiecewiseHue([hue |-> hue, chroma |-> 50000, tone |-> 50],
                                        tables.hueBreakpoints, tables.table)]
    /\ UNCHANGED <<args, scheme, calls, first, between, again, other, tasks>>

\* DynamicScheme.getRotatedHue(sourceColorHct, hueBreakpoints, rotations)
CallGetRotatedHue(hue, tables) ==
    /\ call' = [op |-> "getRotatedHue", hue |-> hue,
                hueBreakpoints |-> tables.hueBreakpoints, table |-> tables.table,
                out |-> getRotatedHue([hue |-> hue, chroma |-> 50000, tone |-> 50],
                                      tables.hueBreakpoints, tables.table)]
    /\ UNCHANGED <<args, scheme, calls, first, between, again, other, tasks>>

\* DynamicSchemePalettesDelegateImpl2025.getTertiaryPalette(sourceColorHct)
CallGetTertiaryPalette(hue) ==
    /\ call' = [op |-> "getTertiaryPalette", hue |-> hue,
                out |-> Impl2025getTertiaryPalette(
                            [hue |-> hue, chroma |-> 50000, tone |-> 50], FALSE, 0)]
    /\ UNCHANGED <<args, scheme, calls, first, between, again, other, tasks>>

\* DynamicSchemePalettesDelegateImpl2025.getErrorPalette(sourceColorHct)
CallGetErrorPalette(hue) ==
    /\ call' = [op |-> "getErrorPalette", hue |-> hue,
                out |-> Impl2025getErrorPalette(
                            [hue |-> hue, chroma |-> 50000, tone |-> 50], FALSE, 0)]
    /\ UNCHANGED <<args, scheme, calls, first, between, again, other, tasks>>

\* tMaxC(palette, lowerBound, upperBound)
CallTMaxC(palette, window) ==
    /\ call' = [op |-> "tMaxC", palette |-> palette,
                lowerBound |-> window[1], upperBound |-> window[2],
                out |-> tMaxC(palette, window[1], window[2], 10)]
    /\ UNCHANGED <<args, scheme, calls, first, between, again, other, tasks>>

\* tMinC(palette, lowerBound, upperBound)
CallTMinC(palette, window) ==
    /\ call' = [op |-> "tMinC", palette |-> palette,
                lowerBound |-> window[1], upperBound |-> window[2],
                out |-> tMinC(palette, window[1], window[2])]
    /\ UNCHANGED <<args, scheme, calls, first, between, again, other, tasks>>

\* findBestToneForChroma(hue, chroma, tone, byDecreasingTone), as tMaxC and
\* tMinC call it: from tone 100 downwards or from tone 0 upwards.  The state
\* keeps the local variables the loop ended with.
CallFindBestToneForChroma(palette, byDecreasingTone) ==
    /\ call' = [op |-> "findBestToneForChroma", palette |-> palette,
                tone |-> IF byDecreasingTone THEN 100 ELSE 0,
                byDecreasingTone |-> byDecreasingTone,
                out |-> findBestToneSearch(palette.hue, palette.chroma,
                                           IF byDecreasingTone THEN 100 ELSE 0,
                                           byDecreasingTone)]
    /\ UNCHANGED <<args, scheme, calls, first, between, again, other, tasks>>

NextCalls ==
    \/ \E hue \in CallHues, tables \in HueTables : CallGetPiecewiseHue(hue, tables)
    \/ \E hue \in CallHues, tables \in HueTables : CallGetRotatedHue(hue, tables)
    \/ \E palette \in CallPalettes, window \in CallWindows : CallTMaxC(palette, window)
    \/ \E palette \in CallPalettes, window \in CallWindows : CallTMinC(palette, window)
    \/ \E palette \in CallPalettes, byDecreasingTone \in BOOLEAN :
         CallFindBestToneForChroma(palette, byDecreasingTone)

SpecCalls == InitCalls /\ [][NextCalls]_vars

\* The palette delegate of 2025 called on its own, on every whole hue.
NextPalettes ==
    \/ \E hue \in AllHues : CallGetTertiaryPalette(hue)
    \/ \E hue \in AllHues : CallGetErrorPalette(hue)

SpecPalettes == InitCalls /\ [][NextPalettes]_vars

\* ------------------------------------------------------------------------
\* Properties
\* ------------------------------------------------------------------------

\* The getter calls the state remembers.
Lookups == {l \in {first, again} : l.role # "none"}

Supplied(name) == args[name] # Undefined

\* C1: a dim getter (primaryDim, secondaryDim, tertiaryDim, errorDim) raises
\* an error and gives no colour when the active catalog has no node for the
\* role, and gives the resolved pixel of the role's node when it has one.
DimGetterRaisesOrResolves ==
    \A l \in Lookups :
      l.role \in DimRoles =>
        IF colors(l.role, scheme) = "undefined"
          THEN l.error /\ l.argb = NoColor /\ l.hct = NoColor /\ l.objects = << >>
          ELSE /\ ~l.error
               /\ l.argb = getArgb(l.role, scheme)
               /\ l.objects = << Node(l.role, scheme) >>

DimGetterRaised ==
    /\ first.role = "primaryDim"
    /\ first.error
    /\ scheme.specVersion = "2021"
    /\ again.role = "primaryDim"
    /\ again.error

\* C2: every getter that returns gives a tone in [0, 100] and a chroma that
\* is not negative, and the tone searches on the role's palette return a
\* tone in [0, 100] even when their last sample is taken outside that range.
ToneAndChromaInRange ==
    \A l \in Lookups :
      ~l.error =>
        /\ l.tone \in 0 .. 100
        /\ l.hct.tone = l.tone
        /\ l.hct.chroma >= 0
        /\ l.argb.chroma >= 0
        /\ LET palette == scheme[Node(l.role, scheme).palette]
           IN  /\ findBestToneForChroma(palette.hue, palette.chroma, 100, TRUE)
                    \in 0 .. 100
               /\ findBestToneForChroma(palette.hue, palette.chroma, 0, FALSE)
                    \in 0 .. 100
               /\ tMaxC(palette, 0, 100, 10) \in 0 .. 100
               /\ tMinC(palette, 0, 100) \in 0 .. 100

SearchLeftTheRange ==
    /\ first.role = "errorDim"
    /\ ~first.error
    /\ first.tone \in 0 .. 100
    /\ findBestToneSearch(scheme.errorPalette.hue, scheme.errorPalette.chroma,
                          0, FALSE).tone > 100

\* C3: for every role of the catalog that declares a tone-delta pair, the
\* pair's delta is 5 and the resolved tones of the role and of its partner
\* are at least 5 apart, unless the role's tone ended at 0 or 100.
PairedRoles ==
    {"primary", "primaryDim", "primaryFixedDim",
     "secondary", "secondaryDim", "secondaryFixedDim",
     "tertiary", "tertiaryDim", "tertiaryFixedDim",
     "error", "errorDim"}

DeltaPairLaw ==
    \A l \in Lookups :
      (l.role \in PairedRoles /\ ~l.error) =>
        LET node == Node(l.role, scheme)
            partner == reads(node, scheme).partner
        IN  /\ node.toneDeltaPair # NoPair
            /\ node.toneDeltaPair.delta = 5
            /\ partner # "none"
            /\ \/ Abs(l.tone - getTone(partner, scheme)) >= 5
               \/ l.tone \in {0, 100}

PairMovedTheFollower ==
    /\ first.role = "primaryDim"
    /\ ~first.error
    /\ first.tone < 85
    /\ first.tone = getTone("primary", scheme) - 5

\* C4: a getter called again on the same scheme, whatever getters of other
\* roles were called in between, gives the same tone and the same pixel as
\* the first time.
Idempotence ==
    again.role # "none" =>
      /\ again.role = first.role
      /\ again.error = first.error
      /\ again.tone = first.tone
      /\ again.hct = first.hct
      /\ again.argb = first.argb

ResolvedTwiceAroundOthers ==
    /\ first.role = "primary"
    /\ again.role = "primary"
    /\ again.afterOther
    /\ scheme.isDark
    /\ again.tone = first.tone
    /\ again.tone = 80

\* C5: the node of a remapped role (surfaceVariant, surfaceTint, background,
\* onBackground) has every selector of its source role's node and differs
\* from it only in its name; the node of the source role made on the way
\* keeps the source's name, and so does every node obtained for the source
\* role.
AliasSource ==
    [surfaceVariant |-> "surfaceContainerHighest", surfaceTint |-> "primary",
     background |-> "surface", onBackground |-> "onSurface"]

AliasName ==
    [surfaceVariant |-> "surface_variant", surfaceTint |-> "surface_tint",
     background |-> "background", onBackground |-> "on_background"]

SourceName ==
    [surfaceContainerHighest |-> "surface_container_highest",
     primary |-> "primary", surface |-> "surface", onSurface |-> "on_surface"]

AliasesDifferOnlyInName ==
    \A l \in Lookups :
      ~l.error =>
        /\ l.role \in DOMAIN AliasSource =>
             LET source == Node(AliasSource[l.role], scheme)
             IN  /\ Len(l.objects) = 2
                 /\ l.objects[1] = source
                 /\ l.objects[1].name = SourceName[AliasSource[l.role]]
                 /\ l.objects[2] = [source EXCEPT !.name = AliasName[l.role]]
                 /\ l.objects[2].name # source.name
                 /\ l.objects[2] = Node(l.role, scheme)
        /\ l.role \in DOMAIN SourceName =>
             /\ Len(l.objects) = 1
             /\ l.objects[1].name = SourceName[l.role]

AliasMadeFromSource ==
    /\ first.role = "surfaceTint"
    /\ Len(first.objects) = 2
    /\ first.objects[1].name = "primary"
    /\ first.objects[2].name = "surface_tint"
    /\ first.objects[2].toneDeltaPair = first.objects[1].toneDeltaPair
    /\ first.objects[2].toneDeltaPair # NoPair

\* C6: highestSurface gives surfaceBright in dark mode and surfaceDim in
\* light mode, and no surface role resolves to a tone above it in dark mode
\* or below it in light mode.
SurfaceRoles ==
    {"surface", "surfaceDim", "surfaceBright", "surfaceContainerLowest",
     "surfaceContainerLow", "surfaceContainer", "surfaceContainerHigh",
     "surfaceContainerHighest"}

HighestSurfaceIsExtreme ==
    /\ highestSurface(scheme) = IF scheme.isDark THEN "surfaceBright"
                                ELSE "surfaceDim"
    /\ \A l \in Lookups :
         (l.role \in SurfaceRoles /\ ~l.error) =>
           IF scheme.isDark
             THEN l.tone <= getTone(highestSurface(scheme), scheme)
             ELSE l.tone >= getTone(highestSurface(scheme), scheme)

YellowLightSurfaceResolved ==
    /\ first.role = "surfaceBright"
    /\ ~first.error
    /\ ~scheme.isDark
    /\ isYellow(scheme.neutralPalette.hue)
    /\ first.tone = 99
    /\ getTone(highestSurface(scheme), scheme) = 90

\* The palette the generator of the scheme's version gives for a field.
Generated(name) ==
    getPalette(getSpec(scheme.specVersion), name, args.sourceColorHct,
               args.isDark, args.contrastLevel)

\* C7, as stated: a supplied palette is the scheme's palette and no generator
\* is called for it; every palette not supplied is the one the generator of
\* the scheme's version gives.
SuppliedOrGenerated ==
    \A name \in PaletteNames :
      IF Supplied(name)
        THEN scheme[name] = args[name] /\ calls[name] = "none"
        ELSE scheme[name] = Generated(name)

\* C7, amended: a supplied palette is the scheme's palette and no generator
\* is called for it; a palette not supplied is the one the generator of the
\* scheme's version gives, except that the error palette is the palette of
\* hue 25 and chroma 84 when that generator gives none.
SuppliedOrGeneratedOrFallback ==
    \A name \in PaletteNames :
      IF Supplied(name)
        THEN scheme[name] = args[name] /\ calls[name] = "none"
        ELSE IF Generated(name) # Undefined
          THEN scheme[name] = Generated(name)
          ELSE name = "errorPalette" /\ scheme[name] = fromHueAndChroma(25, 84000)

SomeSuppliedSomeGenerated ==
    /\ Supplied("primaryPalette")
    /\ ~Supplied("secondaryPalette")
    /\ ~Supplied("errorPalette")
    /\ scheme.specVersion = "2021"
    /\ scheme.primaryPalette = SuppliedPalette.primaryPalette
    /\ scheme.secondaryPalette = fromHueAndChroma(20, 8000)
    /\ scheme.errorPalette = fromHueAndChroma(25, 84000)

\* C8: the scheme's version is the one given, or '2021' when none is given;
\* every palette that is generated is generated by the 2025 generator when
\* that version is '2025' and by the 2021 generator otherwise, the same one
\* for all six.
GeneratorByVersion ==
    /\ scheme.specVersion = IF args.specVersion = "undefined" THEN "2021"
                            ELSE args.specVersion
    /\ \A name \in PaletteNames :
         calls[name] = IF Supplied(name) THEN "none"
                       ELSE IF args.specVersion = "2025" THEN spec2025
                       ELSE spec2021
    /\ \A name \in PaletteNames, another \in PaletteNames :
         (calls[name] # "none" /\ calls[another] # "none") =>
           calls[name] = calls[another]

VersionOmitted ==
    /\ args.specVersion = "undefined"
    /\ scheme.specVersion = "2021"
    /\ \A name \in PaletteNames : calls[name] = spec2021

\* C9: after any getter calls the scheme's source colour, contrast level,
\* dark flag, version and six palettes are those the constructor set.
SchemeImmutable ==
    /\ scheme = DynamicScheme(args).scheme
    /\ other.built => other.scheme = DynamicScheme(other.args).scheme

FixedRolesResolved ==
    /\ first.role = "primaryFixed"
    /\ again.role = "primaryFixed"
    /\ again.afterOther
    /\ scheme.isDark
    /\ scheme.contrastLevel = 10

\* C10: a resolution that overlaps with other resolutions, on the same
\* scheme or on another one, and with the construction of another scheme,
\* ends with the tone and the pixel it gives when it runs alone on the
\* scheme as constructed.
ConcurrentAsAlone ==
    \A t \in Tasks :
      tasks[t].pc = "done" =>
        LET alone == IF tasks[t].on = 1 THEN DynamicScheme(args).scheme
                     ELSE DynamicScheme(other.args).scheme
        IN  /\ tasks[t].tone = getTone(tasks[t].role, alone)
            /\ tasks[t].argb = getArgb(tasks[t].role, alone)

ResolutionsOverlapped ==
    /\ other.built
    /\ tasks[1].pc = "done"
    /\ tasks[1].role = "primary"
    /\ tasks[1].on = 1
    /\ tasks[1].tone = 91
    /\ tasks[2].pc = "read"
    /\ tasks[2].role = "primaryFixed"
    /\ tasks[2].on = 1

\* The indices i (from 0) below min(len(hueBreakpoints) - 1, len(table)) whose
\* interval [hueBreakpoints[i], hueBreakpoints[i+1]) contains the hue.
IntervalsOf(hue, hueBreakpoints, table) ==
    {i \in 0 .. (Len(hueBreakpoints) - 2) :
       /\ i < Len(table)
       /\ hueBreakpoints[i + 1] <= hue
       /\ hue < hueBreakpoints[i + 2]}

\* C11, as stated: getRotatedHue gives the source hue plus the rotation of
\* the first interval that contains it, normalised to [0, 360), and the
\* source hue itself when no interval contains it.
RotatedHueOrSourceHue ==
    call.op = "getRotatedHue" =>
      LET hit == IntervalsOf(call.hue, call.hueBreakpoints, call.table)
      IN  call.out = IF hit # {}
                       THEN (call.hue + call.table[Least(hit) + 1]) % 360
                       ELSE call.hue

\* C12: getPiecewiseHue gives the table's hue for the first interval that
\* contains the source hue, normalised to [0, 360), and the source hue
\* unchanged when no interval contains it.
PiecewiseHueOrSourceHue ==
    call.op = "getPiecewiseHue" =>
      LET hit == IntervalsOf(call.hue, call.hueBreakpoints, call.table)
      IN  call.out = IF hit # {}
                       THEN call.table[Least(hit) + 1] % 360
                       ELSE call.hue

\* A table hue above 360 was found and normalised.
PiecewiseHueNormalised ==
    /\ call.op = "getPiecewiseHue"
    /\ call.hue = 150
    /\ call.table = <<26, 400>>
    /\ call.out = 40

\* The answer of the search a call of tMaxC or tMinC makes.
SearchOf(c) ==
    IF c.op = "tMaxC"
      THEN findBestToneForChroma(c.palette.hue, c.palette.chroma, 100, TRUE)
      ELSE findBestToneForChroma(c.palette.hue, c.palette.chroma, 0, FALSE)

\* C13: for a window with lowerBound <= upperBound the tone tMaxC or tMinC
\* returns lies in the window; it is the search's answer when that is in the
\* window, and otherwise the window bound nearer to it.
ToneWithinWindow ==
    (call.op \in {"tMaxC", "tMinC"} /\ call.lowerBound <= call.upperBound) =>
      /\ call.lowerBound <= call.out
      /\ call.out <= call.upperBound
      /\ call.out = IF SearchOf(call) < call.lowerBound THEN call.lowerBound
                    ELSE IF SearchOf(call) > call.upperBound THEN call.upperBound
                    ELSE SearchOf(call)

\* The search answered tone 96, above the window [0, 20].
SearchAnsweredAboveWindow ==
    /\ call.op = "tMaxC"
    /\ call.palette = fromHueAndChroma(20, 8000)
    /\ call.upperBound = 20
    /\ SearchOf(call) = 96
    /\ call.out = 20

\* C14: with the default bounds, the tone t* that tMaxC returns is in
\* [0, 100] and the tone t* - 1, when in [0, 100], is not rendered with a
\* strictly higher chroma than t*; the same for tMinC and the tone t* + 1.
NoBetterNeighbour ==
    (call.op \in {"tMaxC", "tMinC"} /\ call.lowerBound = 0 /\ call.upperBound = 100) =>
      LET neighbour == IF call.op = "tMaxC" THEN call.out - 1 ELSE call.out + 1
          sampled(tone) == HctChroma(call.palette.hue, call.palette.chroma, tone)
      IN  /\ call.out \in 0 .. 100
          /\ neighbour \in 0 .. 100 => ~(sampled(neighbour) > sampled(call.out))

\* tMinC stopped at tone 59, past the valley between the two peaks of the
\* magenta sector; its neighbour 60 renders the same chroma.
SearchStoppedBeforeNeighbour ==
    /\ call.op = "tMinC"
    /\ call.palette = fromHueAndChroma(340, 70000)
    /\ call.lowerBound = 0
    /\ call.upperBound = 100
    /\ call.out = 59
    /\ HctChroma(340, 70000, 60) = HctChroma(340, 70000, 59)

\* C15: surfaceContainerLowest resolves to tone 100 in light mode and to
\* tone 0 in dark mode, whatever the seed and the contrast level; for the
\* seed of hue 0, chroma 50 and tone 50 in light mode at contrast level 0,
\* primary resolves to tone 40.
LowestContainerAndRedPrimary ==
    \A l \in Lookups :
      /\ (l.role = "surfaceContainerLowest" /\ ~l.error) =>
           l.tone = IF scheme.isDark THEN 0 ELSE 100
      /\ (/\ l.role = "primary"
          /\ ~l.error
          /\ args.sourceColorHct = [hue |-> 0, chroma |-> 50000, tone |-> 50]
          /\ ~args.isDark
          /\ args.contrastLevel = 0) => l.tone = 40

RedPrimaryResolved ==
    /\ first.role = "primary"
    /\ ~first.error
    /\ args.sourceColorHct = [hue |-> 0, chroma |-> 50000, tone |-> 50]
    /\ ~args.isDark
    /\ args.contrastLevel = 0
    /\ ~Supplied("primaryPalette")
    /\ first.tone = 40

\* Whether a contrast curve is in effect for a role: its node has a
\* background and a contrast curve.
CurveInEffect(role) ==
    /\ Node(role, scheme).background # "none"
    /\ Node(role, scheme).contrastCurve # NoCurve

\* The slack of the contrast law, in hundredths of a ratio.
Epsilon == 5

\* C16: at a contrast level of 0 or more, a role with a contrast curve in
\* effect resolves to a tone whose contrast ratio against the resolved tone
\* of its background is at least the curve's value at the scheme's contrast
\* level, up to Epsilon.
ContrastLaw ==
    \A l \in Lookups :
      (~l.error /\ scheme.contrastLevel >= 0 /\ CurveInEffect(l.role)) =>
        ratioOfTones(l.tone, getTone(Node(l.role, scheme).background, scheme))
          >= curveValueAt(Node(l.role, scheme).contrastCurve, scheme.contrastLevel)
               - Epsilon

\* Whether some tone reaches a contrast ratio against a background tone.
Attainable(bgTone, ratio) ==
    ratioOfTones(100, bgTone) >= ratio \/ ratioOfTones(bgTone, 0) >= ratio

\* C16, amended: the same, for the roles whose target ratio some tone in
\* [0, 100] reaches against the background's resolved tone; where no tone
\* reaches it, the role resolves to tone 0 or tone 100.
ContrastLawWhereAttainable ==
    \A l \in Lookups :
      (~l.error /\ scheme.contrastLevel >= 0 /\ CurveInEffect(l.role)) =>
        LET bgTone == getTone(Node(l.role, scheme).background, scheme)
            target == curveValueAt(Node(l.role, scheme).contrastCurve,
                                   scheme.contrastLevel)
        IN  IF Attainable(bgTone, target)
              THEN ratioOfTones(l.tone, bgTone) >= target - Epsilon
              ELSE l.tone \in {0, 100}

\* In a dark scheme at contrast level 1 the curve moved primary from its
\* base tone 80 to tone 91.
CurveMovedPrimary ==
    /\ first.role = "primary"
    /\ ~first.error
    /\ scheme.isDark
    /\ scheme.contrastLevel = 10
    /\ scheme.sourceColorHct.hue = 20
    /\ ~Supplied("primaryPalette")
    /\ CurveInEffect("primary")
    /\ first.tone = 91

\* The container and fixed roles whose curve depends on the contrast level.
ContainerFamily ==
    {"primaryContainer", "secondaryContainer", "tertiaryContainer",
     "errorContainer", "primaryFixed", "secondaryFixed", "tertiaryFixed"}

\* The tone a node's tone rule gives on the scheme, clamped to [0, 100].
BaseTone(node) ==
    clampDouble(0, 100,
                toneRule(node.tone, scheme,
                         IF node.toneOf = "none" THEN 0
                         ELSE getTone(node.toneOf,
                                      IF node.toneScheme = "tempS"
                                        THEN tempS(scheme) ELSE scheme)))

\* C17: a role of the container and fixed family has a contrast curve exactly
\* when the scheme's contrast level is above 0, and then the curve of default
\* ratio 1.5; at a contrast level of 0 or less it has none and resolves to
\* the tone of its tone rule.
FamilyCurveOnlyWhenElevated ==
    \A l \in Lookups :
      (~l.error /\ l.role \in ContainerFamily) =>
        LET node == l.objects[Len(l.objects)]
        IN  IF scheme.contrastLevel > 0
              THEN node.contrastCurve = getCurve(150) /\ node.contrastCurve # NoCurve
              ELSE node.contrastCurve = NoCurve /\ l.tone = BaseTone(node)

\* In a dark scheme at contrast level 1 primaryContainer has the curve of
\* default ratio 1.5, which moved it from its base tone 30 to tone 61.
ContainerCurveElevated ==
    /\ first.role = "primaryContainer"
    /\ ~first.error
    /\ scheme.isDark
    /\ scheme.contrastLevel = 10
    /\ scheme.sourceColorHct.hue = 20
    /\ ~Supplied("primaryPalette")
    /\ first.objects[1].contrastCurve = getCurve(150)
    /\ BaseTone(first.objects[1]) = 30
    /\ first.tone = 61

\* The surface roles, with the roles remapped onto them and the inverse
\* surface.
AllSurfaceRoles ==
    SurfaceRoles \cup {"surfaceVariant", "background", "inverseSurface"}

\* The content and outline roles drawn on the surfaces.
ContentAndOutlineRoles ==
    {"onSurface", "onSurfaceVariant", "onBackground", "outline", "outlineVariant"}

\* C18, as stated: a role whose chroma multiplier is not 1 is a surface role
\* drawn from the neutral palette; every other role has the multiplier 1.
MultiplierOnlyOnSurfaces ==
    \A l \in Lookups :
      ~l.error =>
        LET node == l.objects[Len(l.objects)]
        IN  node.chromaMultiplier # 10 =>
              l.role \in AllSurfaceRoles /\ node.palette = "neutralPalette"

\* C18, amended: a role whose chroma multiplier is not 1 is drawn from the
\* neutral palette and is a surface role or one of onSurface,
\* onSurfaceVariant, onBackground, outline and outlineVariant; every other
\* role has the multiplier 1.
MultiplierOnlyOnNeutralRoles ==
    \A l \in Lookups :
      ~l.error =>
        LET node == l.objects[Len(l.objects)]
        IN  node.chromaMultiplier # 10 =>
              /\ l.role \in AllSurfaceRoles \cup ContentAndOutlineRoles
              /\ node.palette = "neutralPalette"

\* outline was looked up: multiplier 2.2 on the neutral palette, and the
\* pixel carries the multiplied chroma of 3.08.
OutlineMultiplied ==
    /\ first.role = "outline"
    /\ ~first.error
    /\ first.objects[1].chromaMultiplier = 22
    /\ scheme.neutralPalette = fromHueAndChroma(20, 1400)
    /\ first.hct.chroma = 3080

\* The references of a role on a scheme: its background role, and the role
\* whose tone its tone rule evaluates, each with the scheme it is resolved on.
References(role, s) ==
    LET node == Node(role, s)
    IN  (IF node.background = "none" THEN {}
         ELSE {[role |-> node.background, s |-> s]})
        \cup (IF node.toneOf = "none" THEN {}
              ELSE {[role |-> node.toneOf,
                     s |-> IF node.toneScheme = "tempS" THEN tempS(s) ELSE s]})

\* Whether a chain of n references starts at the role.
RECURSIVE HasChain(_, _, _)
HasChain(role, s, n) ==
    n = 0 \/ \E next \in References(role, s) : HasChain(next.role, next.s, n - 1)

\* C19: no chain of references (to the background role, to the role a tone
\* rule evaluates) that starts at a role of the catalog has more than 4
\* references; the graph of references therefore has no cycle and a
\* resolution recurses to a bounded depth.
ReferenceChainsBounded ==
    \A l \in Lookups : ~l.error => ~HasChain(l.role, scheme, 5)

\* onPrimaryFixed was resolved; its chain through primaryFixedDim,
\* primaryFixed and primaryContainer to the highest surface has 4 references.
LongestChainResolved ==
    /\ first.role = "onPrimaryFixed"
    /\ ~first.error
    /\ HasChain("onPrimaryFixed", scheme, 4)
    /\ Node("onPrimaryFixed", scheme).background = "primaryFixedDim"
    /\ Node("primaryFixedDim", scheme).toneOf = "primaryFixed"
    /\ Node("primaryFixed", scheme).toneOf = "primaryContainer"
    /\ Node("primaryContainer", tempS(scheme)).background = "surfaceDim"

\* The k-th tone of a search (k from 0), and the chroma sampled there.
ToneAt(c, k) == IF c.byDecreasingTone THEN 100 - k ELSE k

SampleAt(c, k) == HctChroma(c.palette.hue, c.palette.chroma, ToneAt(c, k))

\* The largest chroma among the samples 0 .. k.
BestUpTo(c, k) ==
    CHOOSE best \in {SampleAt(c, j) : j \in 0 .. k} :
      \A j \in 0 .. k : SampleAt(c, j) <= best

\* The first of the samples 0 .. k with the largest chroma among them.
FirstBestUpTo(c, k) == Least({j \in 0 .. k : SampleAt(c, j) = BestUpTo(c, k)})

\* The sample at which a hill-climb ends: the first one that is no
\* improvement on the best before it, or the last tone of the range.
ClimbEnd(c) ==
    LET flat == {k \in 1 .. 100 : SampleAt(c, k) <= BestUpTo(c, k - 1)}
    IN  IF flat # {} THEN Least(flat) ELSE 100

\* C20, as stated: the search ends at the first sample whose chroma does not
\* strictly exceed the best chroma before it, or at the tone bound, and
\* returns the best tone sampled up to there.
SearchIsHillClimb ==
    call.op = "findBestToneForChroma" =>
      /\ call.out.answer = ToneAt(call, FirstBestUpTo(call, ClimbEnd(call)))
      /\ call.out.samples <= ClimbEnd(call) + 1

\* The sample at which the loop ends: the first one from which on the best
\* chroma is not below the chroma asked for, or the sample one step past the
\* tone bound.
LoopEnd(c) ==
    LET reached == {k \in 0 .. 100 : BestUpTo(c, k) >= c.palette.chroma}
    IN  IF reached # {} THEN Least(reached) ELSE 101

\* C20, amended: the search starts at tone 100 or 0 and steps by 1; it ends
\* once the best chroma sampled is not below the chroma asked for, or one
\* step past the tone bound, and goes on after a sample that is no
\* improvement; it returns the first tone of the largest chroma sampled.
SearchRunsUntilChromaReached ==
    call.op = "findBestToneForChroma" =>
      /\ call.out.samples = LoopEnd(call) + 1
      /\ call.out.answer = ToneAt(call, FirstBestUpTo(call, LoopEnd(call)))

\* A search upwards in the magenta sector went on through the valley after
\* the first peak at tone 30 and answered tone 59.
SearchCrossedValley ==
    /\ call.op = "findBestToneForChroma"
    /\ call.palette = fromHueAndChroma(340, 70000)
    /\ ~call.byDecreasingTone
    /\ ClimbEnd(call) = 31
    /\ call.out.samples = 60
    /\ call.out.answer = 59

SearchStaysInRange ==
    call.op = "findBestToneForChroma" =>
      /\ \A k \in 0 .. (call.out.samples - 1) : ToneAt(call, k) \in 0 .. 100
      /\ call.out.tone \in 0 .. 100
      /\ call.out.answer \in 0 .. 100

\* The container role behind each fixed role.
ContainerOf ==
    [primaryFixed |-> "primaryContainer", secondaryFixed |-> "secondaryContainer",
     tertiaryFixed |-> "tertiaryContainer"]

\* A scheme with the same seed and palettes in another mode and at another
\* contrast level.
SchemeAs(s, isDark, contrastLevel) ==
    [s EXCEPT !.isDark = isDark, !.contrastLevel = contrastLevel]

\* The tone the tone rule of a role gives on a scheme, clamped to [0, 100].
BaseToneOn(role, s) ==
    LET node == Node(role, s)
    IN  clampDouble(0, 100,
                    toneRule(node.tone, s,
                             IF node.toneOf = "none" THEN 0
                             ELSE getTone(node.toneOf,
                                          IF node.toneScheme = "tempS"
                                            THEN tempS(s) ELSE s)))

\* C23: the tone rule of primaryFixed, secondaryFixed and tertiaryFixed gives
\* the tone of the role's container resolved in light mode at contrast level
\* 0 on the scheme's palettes; it gives the same tone on every scheme that
\* differs in mode and contrast level only; and resolving the role leaves
\* the scheme's mode and contrast level as they were.
FixedToneFromLightContainer ==
    \A l \in Lookups :
      (~l.error /\ l.role \in DOMAIN ContainerOf) =>
        /\ BaseTone(l.objects[Len(l.objects)])
             = getTone(ContainerOf[l.role], SchemeAs(scheme, FALSE, 0))
        /\ \A isDark \in BOOLEAN, contrastLevel \in ContrastLevels :
             BaseToneOn(l.role, SchemeAs(scheme, isDark, contrastLevel))
               = BaseTone(l.objects[Len(l.objects)])
        /\ scheme.isDark = args.isDark
        /\ scheme.contrastLevel = args.contrastLevel

\* secondaryFixed was resolved on a dark scheme at contrast level 1, where
\* its container resolves to another tone than in light mode at level 0.
FixedResolvedOnDarkScheme ==
    /\ first.role = "secondaryFixed"
    /\ ~first.error
    /\ scheme.isDark
    /\ scheme.contrastLevel = 10
    /\ BaseTone(first.objects[1])
         = getTone("secondaryContainer", SchemeAs(scheme, FALSE, 0))
    /\ getTone("secondaryContainer", scheme)
         # getTone("secondaryContainer", SchemeAs(scheme, FALSE, 0))

\* The schemes of the 2025 version the constructor builds from the arguments
\* of the model.
Schemes2025 ==
    {DynamicScheme(a).scheme : a \in {o \in AllOptions : o.specVersion = "2025"}}

\* C24: the tone of a surface role is fixed by the mode and by whether the
\* hue of the neutral palette is yellow: every scheme of the same mode and
\* the same hue family gives the role the same tone, in dark mode every
\* scheme does whatever its hue family, and in light mode a scheme with a
\* yellow neutral hue gives the role a tone that is not lower than the tone
\* of a scheme with another neutral hue.
SurfaceToneByModeAndYellow ==
    \A l \in Lookups :
      (~l.error /\ l.role \in SurfaceRoles /\ scheme.specVersion = "2025") =>
        \A t \in Schemes2025 :
          /\ (/\ t.isDark = scheme.isDark
              /\ \/ scheme.isDark
                 \/ isYellow(t.neutralPalette.hue)
                      = isYellow(scheme.neutralPalette.hue)) =>
               getTone(l.role, t) = l.tone
          /\ (/\ ~scheme.isDark
              /\ ~t.isDark
              /\ isYellow(t.neutralPalette.hue)
              /\ ~isYellow(scheme.neutralPalette.hue)) =>
               getTone(l.role, t) >= l.tone

\* surfaceDim was resolved on a light scheme with a yellow neutral hue, to
\* another tone than on a light scheme of another hue.
YellowSurfaceResolved ==
    /\ first.role = "surfaceDim"
    /\ ~first.error
    /\ scheme.specVersion = "2025"
    /\ ~scheme.isDark
    /\ isYellow(scheme.neutralPalette.hue)
    /\ first.tone = 90
    /\ \E t \in Schemes2025 :
         /\ ~t.isDark
         /\ ~isYellow(t.neutralPalette.hue)
         /\ getTone("surfaceDim", t) = 87

\* The tables of the tertiary and of the error palette of 2025.
TertiaryBreakpoints == <<0, 38, 105, 161, 204, 278, 333, 360>>

TertiaryRotations == <<0 - 32, 26, 10, 0 - 39, 24, 0 - 15, 0 - 32>>

ErrorBreakpoints == <<0, 3, 13, 23, 33, 43, 153, 273, 360>>

ErrorHues == <<12, 22, 32, 12, 22, 32, 22, 12>>

\* C25: under the 2025 palette delegate exactly one interval of each table
\* contains the source hue; the hue of the tertiary palette is the source
\* hue plus the rotation of that interval, modulo 360 and so in [0, 360);
\* the hue of the error palette is the table value of that interval, one of
\* 12, 22 and 32.
Tables2025AlwaysApply ==
    /\ call.op = "getTertiaryPalette" =>
         LET hit == IntervalsOf(call.hue, TertiaryBreakpoints, TertiaryRotations)
         IN  /\ Cardinality(hit) = 1
             /\ \A i \in hit :
                  call.out.hue = (call.hue + TertiaryRotations[i + 1]) % 360
             /\ call.out.hue \in 0 .. 359
    /\ call.op = "getErrorPalette" =>
         LET hit == IntervalsOf(call.hue, ErrorBreakpoints, ErrorHues)
         IN  /\ Cardinality(hit) = 1
             /\ \A i \in hit : call.out.hue = ErrorHues[i + 1]
             /\ call.out.hue \in {12, 22, 32}

\* The tertiary palette of the seed of hue 20: the rotation of -32 wraps the
\* hue below 0 round to 348.
TertiaryHueWrapped ==
    /\ call.op = "getTertiaryPalette"
    /\ call.hue = 20
    /\ call.out.hue = 348

\* The partner each role with a pair of its own is paired with.
ContainerOfAccent ==
    [primary |-> "primaryContainer", secondary |-> "secondaryContainer",
     tertiary |-> "tertiaryContainer", error |-> "errorContainer"]

AccentOfDim ==
    [primaryDim |-> "primary", secondaryDim |-> "secondary",
     tertiaryDim |-> "tertiary", errorDim |-> "error"]

FixedOfFixedDim ==
    [primaryFixedDim |-> "primaryFixed", secondaryFixedDim |-> "secondaryFixed",
     tertiaryFixedDim |-> "tertiaryFixed"]

ContainerRoles ==
    {"primaryContainer", "secondaryContainer", "tertiaryContainer", "errorContainer"}

\* The node of a lookup is named as its pair's roleA or roleB, and the two
\* are named differently.
MemberOfOwnPair(l) ==
    LET node == l.objects[Len(l.objects)]
        pair == node.toneDeltaPair
    IN  pair # NoPair =>
          /\ node.name \in {Node(pair.roleA, scheme).name, Node(pair.roleB, scheme).name}
          /\ Node(pair.roleA, scheme).name # Node(pair.roleB, scheme).name

\* The pairs the accent, dim, fixedDim and container roles declare.
PairsAsDeclared(l) ==
    LET pair == l.objects[Len(l.objects)].toneDeltaPair
    IN  /\ l.role \in DOMAIN ContainerOfAccent =>
             pair.roleA = ContainerOfAccent[l.role] /\ pair.roleB = l.role
        /\ l.role \in DOMAIN AccentOfDim =>
             pair.roleA = l.role /\ pair.roleB = AccentOfDim[l.role]
        /\ l.role \in DOMAIN FixedOfFixedDim =>
             pair.roleA = l.role /\ pair.roleB = FixedOfFixedDim[l.role]
        /\ l.role \in ContainerRoles => pair = NoPair

\* C26, as stated: every role of the 2025 catalog that declares a tone-delta
\* pair is named as the pair's roleA or roleB: an accent role is roleB of
\* (container, accent), a dim role roleA of (dim, accent), a fixedDim role
\* roleA of (fixedDim, fixed); a container role declares no pair; and no
\* pair names the same role twice.
EveryPairHoldsItsRole ==
    \A l \in Lookups :
      (~l.error /\ scheme.specVersion = "2025") =>
        MemberOfOwnPair(l) /\ PairsAsDeclared(l)

\* C26, amended: the same for every role but surfaceTint, the copy of
\* primary under the name surface_tint, which carries the pair
\* (primaryContainer, primary) and is named as neither of the two.
EveryPairHoldsItsRoleButTheAlias ==
    \A l \in Lookups :
      (~l.error /\ scheme.specVersion = "2025") =>
        /\ PairsAsDeclared(l)
        /\ IF l.role = "surfaceTint"
             THEN /\ l.objects[Len(l.objects)].name = "surface_tint"
                  /\ l.objects[Len(l.objects)].toneDeltaPair
                       = Node("primary", scheme).toneDeltaPair
                  /\ l.objects[Len(l.objects)].toneDeltaPair.roleB = "primary"
             ELSE MemberOfOwnPair(l)

\* surfaceTint was resolved: the node carries the pair of primary and is
\* named as neither role of the pair.
AliasCarriesPairOfPrimary ==
    /\ first.role = "surfaceTint"
    /\ ~first.error
    /\ first.objects[Len(first.objects)].name = "surface_tint"
    /\ first.objects[Len(first.objects)].toneDeltaPair.roleA = "primaryContainer"
    /\ first.objects[Len(first.objects)].toneDeltaPair.roleB = "primary"
    /\ Node("primaryContainer", scheme).name # "surface_tint"
    /\ Node("primary", scheme).name # "surface_tint"

\* C27: in the 2025 catalog a role with a contrast curve has a background
\* role, and the role a node names as its background, directly or through
\* highestSurface, is declared with isBackground = true.
CurveHasDeclaredBackground ==
    \A l \in Lookups :
      (~l.error /\ scheme.specVersion = "2025") =>
        LET node == l.objects[Len(l.objects)]
        IN  /\ node.contrastCurve # NoCurve => node.background # "none"
            /\ node.background # "none" =>
                 Node(node.background, scheme).isBackground
            /\ Node(highestSurface(scheme), scheme).isBackground

\* onTertiaryFixed was resolved: it has a curve and is drawn on
\* tertiaryFixedDim; and so was a role drawn on the highest surface.
CurveOnFixedDimResolved ==
    /\ first.role = "onTertiaryFixed"
    /\ ~first.error
    /\ first.objects[1].contrastCurve # NoCurve
    /\ first.objects[1].background = "tertiaryFixedDim"
    /\ Node("tertiaryFixedDim", scheme).isBackground
    /\ Node("onSurface", scheme).background = highestSurface(scheme)

\* The arguments with another mode and another contrast level.
ArgsAs(isDark, contrastLevel) ==
    [args EXCEPT !.isDark = isDark, !.contrastLevel = contrastLevel]

\* C28: with no palette supplied, under either version, each of the six
\* palettes of the scheme has the hue and chroma it has on the scheme built
\* from the same source colour and version in any other mode and at any
\* other contrast level.
PalettesIgnoreModeAndContrast ==
    (\A name \in PaletteNames : ~Supplied(name)) =>
      \A isDark \in BOOLEAN, contrastLevel \in ContrastLevels, name \in PaletteNames :
        /\ DynamicScheme(ArgsAs(isDark, contrastLevel)).scheme[name].hue
             = scheme[name].hue
        /\ DynamicScheme(ArgsAs(isDark, contrastLevel)).scheme[name].chroma
             = scheme[name].chroma

\* A dark scheme at contrast level 1 built under 2021 from the seed of hue
\* 255 without supplied palettes, and looked at after a getter call.
DarkSchemeGenerated ==
    /\ \A name \in PaletteNames : ~Supplied(name)
    /\ args.isDark
    /\ args.contrastLevel = 10
    /\ args.specVersion = "2021"
    /\ args.sourceColorHct.hue = 255
    /\ scheme.neutralPalette = fromHueAndChroma(255, 2000)
    /\ scheme.neutralPalette = DynamicScheme(ArgsAs(FALSE, 0)).scheme.neutralPalette
    /\ first.role # "none"

\* C29: the error palette of a scheme is always defined; when none is
\* supplied it is the palette of hue 25 and chroma 84 under the 2021
\* delegate, whose generator gives none, whatever the source colour, and
\* under the 2025 delegate it is the generated palette, of chroma 50.
ErrorPaletteAlwaysDefined ==
    /\ scheme.errorPalette # Undefined
    /\ scheme.errorPalette \in PaletteValues
    /\ ~Supplied("errorPalette") =>
         /\ Generated("errorPalette") = Undefined =>
              scheme.errorPalette = fromHueAndChroma(25, 84000)
         /\ scheme.specVersion = "2021" =>
              /\ Generated("errorPalette") = Undefined
              /\ scheme.errorPalette.hue = 25
              /\ scheme.errorPalette.chroma = 84000
         /\ scheme.specVersion = "2025" =>
              /\ scheme.errorPalette = Generated("errorPalette")
              /\ scheme.errorPalette.chroma = 50000

\* A scheme built without a version from the seed of hue 255 with no error
\* palette supplied: the fallback palette, and not a palette of the seed.
ErrorPaletteFellBack ==
    /\ args.specVersion = "undefined"
    /\ ~Supplied("errorPalette")
    /\ args.sourceColorHct.hue = 255
    /\ scheme.errorPalette.hue = 25
    /\ scheme.errorPalette.chroma = 84000
    /\ first.role # "none"

\* C30: the search ends, after at most 102 samples: the loop's variables
\* come to a state from which the loop does not go on, and the tone has
\* moved from the start tone by exactly 1 per sample after the first, all
\* in the direction of the search.
SearchEndsWithinRange ==
    call.op = "findBestToneForChroma" =>
      /\ call.tone \in {0, 100}
      /\ call.out \in findBestToneVars
      /\ ~findBestToneGoesOn(call.palette.hue, call.palette.chroma,
                             call.byDecreasingTone, call.out)
      /\ call.out.samples \in 1 .. 102
      /\ call.out.tone = IF call.byDecreasingTone
                           THEN call.tone - (call.out.samples - 1)
                           ELSE call.tone + (call.out.samples - 1)

\* A search upwards for a chroma that no tone renders in full: 102 samples,
\* ending one step past tone 100.
SearchRanTheWholeRange ==
    /\ call.op = "findBestToneForChroma"
    /\ ~call.byDecreasingTone
    /\ call.tone = 0
    /\ call.out.best < call.palette.chroma
    /\ call.out.samples = 102
    /\ call.out.tone = 101

====
